---- MODULE Spec2Model ----
(***************************************************************************)
(* Model of the X-NUCLEO-LPM01A PowerShield host core:                     *)
(*   core/data_parser.py   - AsciiParser, BinaryParser                     *)
(*   core/serial_worker.py - SerialWorker (connection/acquisition machine) *)
(*   core/protocol.py      - Commands.freq, Commands.acqtime               *)
(*                                                                         *)
(* Bytes are naturals 0..255, text is a sequence of code points.  Python   *)
(* sequences are indexed from 0; At and Slice keep the source's indices.   *)
(***************************************************************************)
EXTENDS Integers, Sequences, FiniteSets, TLC

VARIABLES
    \* SerialWorker fields
    serial,            \* _serial: 0 is None, otherwise the handle's number
    keep_running,      \* _keep_running
    state,             \* _state
    data_format,       \* _data_format
    cmd_queue,         \* _cmd_queue
    resp_buf,          \* _resp_buf
    pending_cmd_name,  \* _pending_cmd_name
    ascii_buf,         \* _ascii_parser._buf
    bin_buf,           \* _binary_parser._buf (BinaryParser._buf)
    \* the worker thread
    running,           \* QThread.isRunning()
    pc,                \* where run() stands
    w_ser, w_state, w_fmt, w_cmd, w_raw,    \* run()'s locals ser, state, fmt, (cmd_bytes, cmd_name), raw
    w_resp,            \* the response buffer as _handle_command_response read it at line 254
    \* the control (GUI) thread
    gui,               \* where the control call stands
    g_ser,             \* connect_device's local ser
    \* the transports
    port_open,         \* handles that are open
    opened,            \* handles created so far
    wire,              \* the chunks the device may deliver in this behaviour
    n_events,          \* environment events so far (opens, chunks read, send_command calls)
    run_disc,          \* "Disconnected" notifications of the current run() call
    ev,                \* the last step: what it was, what it emitted
    acq_fmt,           \* the format selected when the running acquisition started ("none": not acquiring)
    owed,              \* commands enqueued, not cleared by a connect and not yet sent, oldest first
    \* decoder harness
    t_units,      \* the units making up the input stream
    t_pos,        \* number of stream bytes fed so far
    t_calls,      \* number of feed calls made
    t_acc,        \* concatenated results of the feed calls
    t_first,      \* where the first feed call ended: "none" (no call yet), "terminator"
                  \* (just before the first unit's two last bytes) or "other"
    t_raised,     \* a feed call raised an exception
    \* command builders (core/protocol.py)
    enc_cmd,      \* the builder to call: "freq" or "acqtime" ("none": no call)
    enc_arg,      \* its argument
    enc_out       \* the bytes it returned (<<>>: not called yet)

worker_vars == <<serial, keep_running, state, data_format, cmd_queue, resp_buf, pending_cmd_name,
                 ascii_buf, running, pc, w_ser, w_state, w_fmt, w_cmd, w_raw, w_resp, gui,
                 g_ser,
                 port_open, opened, wire, n_events, run_disc, ev, owed, acq_fmt>>
encoder_vars == <<enc_cmd, enc_arg, enc_out>>
harness_vars == <<t_units, t_pos, t_calls, t_acc, t_first, t_raised, encoder_vars>>
vars == <<worker_vars, bin_buf, harness_vars>>

\* ------------------------------------------------------------------ bounds
MaxUnits == 2       \* units in a decoder harness stream
MaxLines == 2       \* lines in an ASCII decoder harness stream
MaxEvents == 4      \* environment events: transports opened, chunks delivered, commands enqueued

\* ------------------------------------------------------- Python sequences
At(buf, i) == buf[i + 1]
Slice(buf, a, b) == SubSeq(buf, a + 1, b)
SetMin(S) == CHOOSE x \in S : \A y \in S : x <= y

\* str.strip() / bytes -> str with errors="replace"
REPLACEMENT == 65533
Whitespace == {9, 10, 11, 12, 13, 28, 29, 30, 31, 32}
DecodeAscii(bytes) == [k \in 1..Len(bytes) |-> IF bytes[k] >= 128 THEN REPLACEMENT ELSE bytes[k]]

RECURSIVE LStrip(_)
LStrip(s) == IF s # <<>> /\ Head(s) \in Whitespace THEN LStrip(Tail(s)) ELSE s
RECURSIVE RStrip(_)
RStrip(s) == IF s # <<>> /\ s[Len(s)] \in Whitespace THEN RStrip(SubSeq(s, 1, Len(s) - 1)) ELSE s
Strip(s) == RStrip(LStrip(s))

\* ----------------------------------------------------------- ParsedData
EmptyParsed ==
    [samples |-> <<>>, ack_lines |-> <<>>, errors |-> <<>>, timestamps |-> <<>>,
     end_of_acquisition |-> FALSE, overcurrent |-> FALSE, raw_lines |-> <<>>]

\* ---------------------------------------------------------- BinaryParser
\* A binary sample value_int / 16.0 ** neg_pow is exact in floating point; it is
\* kept as the dyadic fraction <<m, e>> = m / 2^e in lowest terms, so that equal
\* floats are equal pairs.
RECURSIVE Dyadic(_, _)
Dyadic(m, e) ==
    IF m = 0 THEN <<0, 0>>
    ELSE IF e > 0 /\ m % 2 = 0 THEN Dyadic(m \div 2, e - 1)
    ELSE <<m, e>>

\* (mutant) the negative power of 16 is not applied.
BinarySample_unscaled(b1, b2) == Dyadic(((b1 % 16) * 256) + b2, 0)

BinarySample(b1, b2) ==
    LET neg_pow == (b1 \div 16) % 16
        value_int == ((b1 % 16) * 256) + b2
    IN  IF neg_pow > 0 THEN Dyadic(value_int, 4 * neg_pow) ELSE Dyadic(value_int, 0)

MetaOut(pos, result, raised) == [pos |-> pos, result |-> result, raised |-> raised]

\* The timestamp record's guard: the frame is 9 bytes, start .. i + 6.
TimestampShort(i, n) == i + 6 > n

\* (mutant) an unknown type is waited on like an incomplete frame.
UnknownType_waits(start, result) == MetaOut(start, result, FALSE)

\* lines 266-267: unknown type, the 2-byte header is skipped
UnknownType(start, result) == MetaOut(start + 2, result, FALSE)

\* (mutant) the four bytes are taken least significant first.
time_ms_reversed(buf, i) ==
    ((At(buf, i + 3) % 128) * 16777216) + (At(buf, i + 2) * 65536)
    + (At(buf, i + 1) * 256) + At(buf, i)

\* lines 234-237: the 32-bit big-endian value at i with bit 31 cleared (the mask
\* is applied to the top byte, the sum staying below 2^31)
time_ms(buf, i) ==
    ((At(buf, i) % 128) * 16777216) + (At(buf, i + 1) * 65536)
    + (At(buf, i + 2) * 256) + At(buf, i + 3)

BinaryParser_parse_meta(buf, start, meta_type, result) ==
    LET i == start + 2
        n == Len(buf)
    IN  IF meta_type \in {241, 242} THEN
            LET hits == {j \in i..(n - 2) : At(buf, j) = 255 /\ At(buf, j + 1) = 255}
            IN  IF hits = {} THEN MetaOut(start, result, FALSE)
                ELSE LET j == SetMin(hits)
                         msg == Strip(DecodeAscii(Slice(buf, i, j)))
                     IN  MetaOut(j + 2,
                                 IF meta_type = 241
                                 THEN [result EXCEPT !.errors = Append(@, msg)]
                                 ELSE result,
                                 FALSE)
        ELSE IF meta_type = 243 THEN
            IF TimestampShort(i, n) THEN MetaOut(start, result, FALSE)
            ELSE LET buf_pct == At(buf, i + 4)
                 IN  IF At(buf, i + 5) # 255 THEN MetaOut(start, result, FALSE)
                     ELSE IF i + 6 >= n THEN MetaOut(start, result, TRUE)   \* buf[i + 6]: IndexError
                     ELSE IF At(buf, i + 6) = 255
                          THEN MetaOut(i + 7,
                                       [result EXCEPT
                                           !.timestamps = Append(@, <<time_ms(buf, i), buf_pct>>)],
                                       FALSE)
                          ELSE MetaOut(start, result, FALSE)
        ELSE IF meta_type \in {244, 245, 246} THEN
            IF i + 1 >= n THEN MetaOut(start, result, FALSE)
            ELSE IF At(buf, i) = 255 /\ At(buf, i + 1) = 255 THEN
                MetaOut(i + 2,
                        IF meta_type = 244 THEN [result EXCEPT !.end_of_acquisition = TRUE]
                        ELSE IF meta_type = 245 THEN [result EXCEPT !.overcurrent = TRUE]
                        ELSE result,
                        FALSE)
            ELSE MetaOut(start, result, FALSE)
        ELSE IF meta_type = 247 THEN
            IF i + 3 >= n THEN MetaOut(start, result, FALSE)
            ELSE IF At(buf, i + 2) = 255 /\ At(buf, i + 3) = 255 THEN MetaOut(i + 4, result, FALSE)
            ELSE MetaOut(start, result, FALSE)
        ELSE UnknownType(start, result)

\* (mutant) a stray byte leaves the cursor where it is.
StraySkip_stays(pos) == pos

\* (mutant) a stray byte takes the byte after it along.
StraySkip_two(pos) == pos + 2

\* lines 198-201: a stray 0xFx byte is skipped alone
StraySkip(pos) == pos + 1

\* lines 187-212: one pass of the loop body at cursor pos; left says that the
\* pass ended the loop (line 194-195, or an exception) instead of moving on.
BinaryParser_iteration(buf, pos, result) ==
    LET b1 == At(buf, pos)
        b2 == At(buf, pos + 1)
    IN  IF b1 = 240 /\ (b2 \div 16) = 15 THEN
            LET m == BinaryParser_parse_meta(buf, pos, b2, result)
            IN  [pos |-> m.pos, result |-> m.result, raised |-> m.raised,
                 left |-> (m.raised \/ m.pos = pos)]
        ELSE IF (b1 \div 16) = 15
        THEN [pos |-> StraySkip(pos), result |-> result, raised |-> FALSE, left |-> FALSE]
        ELSE [pos |-> pos + 2,
              result |-> [result EXCEPT !.samples = Append(@, BinarySample(b1, b2))],
              raised |-> FALSE, left |-> FALSE]

\* The while loop of feed, from cursor pos.
RECURSIVE BinaryParser_scan(_, _, _)
BinaryParser_scan(buf, pos, result) ==
    IF ~(pos + 1 < Len(buf)) THEN MetaOut(pos, result, FALSE)
    ELSE LET it == BinaryParser_iteration(buf, pos, result)
         IN  IF it.left THEN MetaOut(it.pos, it.result, it.raised)
             ELSE BinaryParser_scan(buf, it.pos, it.result)

\* (mutant) the first bytes of the buffer are kept instead of the unconsumed ones.
CarryOver_head(buf, pos) == Slice(buf, 0, Len(buf) - pos)

\* (mutant) the unconsumed bytes are not kept for the next call.
CarryOver_dropped(buf, pos) == <<>>

\* What stays in _buf when the loop is left at cursor pos.
CarryOver(buf, pos) == Slice(buf, pos, Len(buf))

\* feed(data) on a parser whose _buf is old: the new _buf, the ParsedData returned,
\* or raised = TRUE when the call ends in an exception (_buf is then already extended).
BinaryParser_feed(old, data) ==
    LET buf == old \o data
        s == BinaryParser_scan(buf, 0, EmptyParsed)
    IN  IF s.raised THEN [raised |-> TRUE, buf |-> buf, result |-> EmptyParsed]
        ELSE [raised |-> FALSE, buf |-> CarryOver(buf, s.pos), result |-> s.result]

\* ------------------------------------------------------------------ text
NL == 10
CR == 13
T_ack == <<97, 99, 107, 32>>                        \* "ack "
T_err == <<101, 114, 114, 32>>                      \* "err "
T_end == <<101, 110, 100>>                          \* "end"
T_error == <<101, 114, 114, 111, 114>>              \* "error"
T_error_sp == <<101, 114, 114, 111, 114, 32>>       \* "error "
T_Timestamp == <<84, 105, 109, 101, 115, 116, 97, 109, 112>>
T_timestamp == <<116, 105, 109, 101, 115, 116, 97, 109, 112>>
T_start == <<115, 116, 97, 114, 116>>               \* "start"
T_stop == <<115, 116, 111, 112>>                    \* "stop"

Digits == 48..57
WordChars == Digits \cup (65..90) \cup (97..122) \cup {95}
StartsWith(s, p) == Len(s) >= Len(p) /\ SubSeq(s, 1, Len(p)) = p
Contains(s, p) == \E k \in 0..(Len(s) - Len(p)) : SubSeq(s, k + 1, k + Len(p)) = p
HasNewline(s) == \E k \in 1..Len(s) : s[k] = NL
\* str.split("\n", 1) of a text that holds a newline
SplitNewline(s) ==
    LET k == SetMin({j \in 1..Len(s) : s[j] = NL})
    IN  <<SubSeq(s, 1, k - 1), SubSeq(s, k + 1, Len(s))>>
RECURSIVE RStripCR(_)
RStripCR(s) == IF s # <<>> /\ s[Len(s)] = CR THEN RStripCR(SubSeq(s, 1, Len(s) - 1)) ELSE s

\* First index >= p of s that is not in S (Len(s) + 1 when there is none).
RECURSIVE Skip(_, _, _)
Skip(s, p, S) == IF p <= Len(s) /\ s[p] \in S THEN Skip(s, p + 1, S) ELSE p

\* str.split(None, 1) of a stripped text: <<first token, rest>>
SplitFirst(s) ==
    LET e == SetMin({j \in 1..(Len(s) + 1) : j > Len(s) \/ s[j] \in Whitespace})
    IN  <<SubSeq(s, 1, e - 1), LStrip(SubSeq(s, e, Len(s)))>>

RECURSIVE DigitsValue(_, _)
DigitsValue(ds, acc) ==
    IF ds = <<>> THEN acc
    ELSE DigitsValue(Tail(ds), IF Head(ds) = 95 THEN acc ELSE (10 * acc) + (Head(ds) - 48))

\* int(s): surrounding whitespace, one sign, digits with single underscores between them
PyInt(s) ==
    LET t == Strip(s)
        signed == t # <<>> /\ Head(t) \in {43, 45}
        body == IF signed THEN Tail(t) ELSE t
        ok == /\ body # <<>>
              /\ \A k \in 1..Len(body) : body[k] \in Digits \cup {95}
              /\ body[1] # 95 /\ body[Len(body)] # 95
              /\ \A k \in 1..(Len(body) - 1) : ~(body[k] = 95 /\ body[k + 1] = 95)
    IN  IF ~ok THEN [ok |-> FALSE, val |-> 0]
        ELSE [ok |-> TRUE,
              val |-> IF signed /\ Head(t) = 45 THEN 0 - DigitsValue(body, 0) ELSE DigitsValue(body, 0)]

\* ----------------------------------------------------------- AsciiParser
\* (mutant) the sign character is not looked at: the exponent is taken as positive.
AsciiParser_parse_sample_unsigned(line) ==
    IF Len(line) < 7 THEN [ok |-> FALSE, mant |-> 0, exp10 |-> 0]
    ELSE LET mantissa == PyInt(SubSeq(line, 1, 4))
             exponent == PyInt(SubSeq(line, 6, 7))
         IN  IF mantissa.ok /\ exponent.ok
             THEN [ok |-> TRUE, mant |-> mantissa.val, exp10 |-> exponent.val]
             ELSE [ok |-> FALSE, mant |-> 0, exp10 |-> 0]

\* mantissa * 10.0 ** (sign * exponent), kept as the pair it is computed from;
\* ok = FALSE is None.
AsciiParser_parse_sample(line) ==
    IF Len(line) < 7 THEN [ok |-> FALSE, mant |-> 0, exp10 |-> 0]
    ELSE LET mantissa == PyInt(SubSeq(line, 1, 4))
             sign == IF line[5] = 45 THEN 0 - 1 ELSE 1
             exponent == PyInt(SubSeq(line, 6, 7))
         IN  IF mantissa.ok /\ exponent.ok
             THEN [ok |-> TRUE, mant |-> mantissa.val, exp10 |-> sign * exponent.val]
             ELSE [ok |-> FALSE, mant |-> 0, exp10 |-> 0]

\* re.search(r"(\d+)\s*<suffix>", line), with \b after the suffix when boundary:
\* the number of the leftmost match, or -1.
SearchNumber(line, suffix, boundary) ==
    LET Match(p) ==
            LET q == Skip(line, p, Digits)
                r == Skip(line, q, Whitespace)
                e == r + Len(suffix)
            IN  /\ line[p] \in Digits
                /\ e - 1 <= Len(line)
                /\ SubSeq(line, r, e - 1) = suffix
                /\ boundary => (e > Len(line) \/ line[e] \notin WordChars)
        M == {p \in 1..Len(line) : Match(p)}
    IN  IF M = {} THEN 0 - 1
        ELSE LET p == SetMin(M)
             IN  DigitsValue(SubSeq(line, p, Skip(line, p, Digits) - 1), 0)

AsciiParser_parse_timestamp(line) ==
    LET sec == SearchNumber(line, <<115>>, TRUE)
        ms == SearchNumber(line, <<109, 115>>, FALSE)
        pct == SearchNumber(line, <<37>>, FALSE)
    IN  <<(IF sec >= 0 THEN sec * 1000 ELSE 0) + (IF ms >= 0 THEN ms ELSE 0),
          IF pct >= 0 THEN pct ELSE 0>>

AsciiParser_dispatch(line, result) ==
    IF line[1] \in Digits THEN
        LET val == AsciiParser_parse_sample(line)
        IN  IF val.ok
            THEN [result EXCEPT !.samples = Append(@, [mant |-> val.mant, exp10 |-> val.exp10])]
            ELSE result
    ELSE IF StartsWith(line, T_ack) THEN
        LET rest == Strip(SubSeq(line, 5, Len(line)))
            parts == SplitFirst(rest)
        IN  [result EXCEPT !.ack_lines = Append(@, <<TRUE, parts[1], parts[2]>>)]
    ELSE IF StartsWith(line, T_err) THEN
        [result EXCEPT !.ack_lines = Append(@, <<FALSE, Strip(SubSeq(line, 5, Len(line))), <<>> >>)]
    ELSE IF line = T_end THEN
        [result EXCEPT !.end_of_acquisition = TRUE]
    ELSE IF StartsWith(line, T_error) THEN
        [result EXCEPT !.errors = Append(@, Strip(SubSeq(line, 6, Len(line))))]
    ELSE IF Contains(line, T_Timestamp) \/ Contains(line, T_timestamp) THEN
        [result EXCEPT !.timestamps = Append(@, AsciiParser_parse_timestamp(line))]
    ELSE result

RECURSIVE AsciiParser_lines(_, _)

\* lines 74-78, for the line split off and the text after it: _buf and the
\* result after one pass of the loop body
AsciiParser_line(line, rest, result) ==
    IF line = <<>> THEN [buf |-> rest, result |-> result]
    ELSE [buf |-> rest,
          result |-> AsciiParser_dispatch(line, [result EXCEPT !.raw_lines = Append(@, line)])]
AsciiParser_split(sp, result) == AsciiParser_line(RStripCR(sp[1]), sp[2], result)
AsciiParser_iteration(buf, result) == AsciiParser_split(SplitNewline(buf), result)

\* The while loop of feed.
AsciiParser_lines(buf, result) ==
    IF ~HasNewline(buf) THEN [buf |-> buf, result |-> result]
    ELSE LET it == AsciiParser_iteration(buf, result)
         IN  AsciiParser_lines(it.buf, it.result)

\* (mutant) the carry-over of the previous call is forgotten.
AsciiParser_feed_fresh(old, text) == AsciiParser_lines(text, EmptyParsed)

AsciiParser_feed(old, text) == AsciiParser_lines(old \o text, EmptyParsed)

\* ------------------------------------------------------------ transport
\* What one read of the transport may return.
K_ack_start == <<97, 99, 107, 32, 115, 116, 97, 114, 116, 10>>   \* "ack start\n"
K_prompt_ack_start == <<80, 111, 119, 101, 114, 83, 104, 105, 101, 108, 100, 32, 62, 32, 97, 99, 107, 32, 115, 116, 97, 114, 116, 10>>   \* "PowerShield > ack start\n"
K_ack_start_bin_end == <<97, 99, 107, 32, 115, 116, 97, 114, 116, 10, 240, 244, 255, 255>>   \* "ack start\n" F0 F4 FF FF
K_ack_start_end_part == <<97, 99, 107, 32, 115, 116, 97, 114, 116, 10, 101, 110, 100, 10, 54, 52>>   \* "ack start\nend\n64"
K_ack_stop == <<97, 99, 107, 32, 115, 116, 111, 112, 10>>   \* "ack stop\n"
K_end == <<101, 110, 100, 10>>   \* "end\n"
K_bin_end == <<240, 244, 255, 255>>   \* F0 F4 FF FF
K_sample == <<54, 52, 48, 57, 45, 48, 55, 13, 10>>   \* "6409-07\r\n"
K_bin_sample == <<0, 5>>   \* 00 05
K_bin_overcurrent == <<240, 245, 255, 255>>   \* F0 F5 FF FF
K_bin_end_ack_stop == <<240, 244, 255, 255, 97, 99, 107, 32, 115, 116, 111, 112, 10>>   \* F0 F4 FF FF "ack stop\n"
K_bin_ts_cut == <<240, 243, 0, 0, 10, 188, 50, 255>>   \* F0 F3 00 00 0A BC 32 FF: a timestamp frame short of its last byte
K_error == <<101, 114, 114, 111, 114, 32, 115, 116, 97, 114, 116, 10>>   \* "error start\n"
\* The device streams one telemetry format in a behaviour.
AsciiChunks == {K_prompt_ack_start, K_ack_start_end_part, K_ack_stop, K_end, K_sample, K_error}
BinaryChunks == {K_ack_start, K_ack_start_bin_end, K_ack_stop, K_bin_end, K_bin_sample,
                 K_bin_overcurrent, K_bin_ts_cut,
                 K_bin_end_ack_stop}
ChunkFamilies == {AsciiChunks, BinaryChunks}

\* Commands the control path enqueues: (cmd_bytes, cmd_name).
Commands ==
    { [bytes |-> T_start \o <<NL>>, name |-> T_start],
      [bytes |-> T_stop \o <<NL>>, name |-> T_stop] }
NoCmd == [bytes |-> <<>>, name |-> <<>>]
Formats == {"ascii_dec", "bin_hexa"}

\* --------------------------------------------------------- SerialWorker
PROMPT == <<80, 111, 119, 101, 114, 83, 104, 105, 101, 108, 100, 32, 62, 32>>   \* "PowerShield > "
EncodeAscii(text) == [k \in 1..Len(text) |-> IF text[k] >= 128 THEN 63 ELSE text[k]]

\* The fields a handler works on, with what it has emitted and fed so far:
\* emitted are the signals, in order; fed the (fmt, raw) pairs passed to
\* _handle_acquisition_data; batch the last ParsedData decoded; ack_start whether
\* the 'ack start' branch ran; leftover the length of the response buffer it
\* re-routed (-1: none); crashed an exception left the handler.
Fields ==
    [state |-> state, resp_buf |-> resp_buf, ascii_buf |-> ascii_buf, bin_buf |-> bin_buf,
     emitted |-> <<>>, fed |-> <<>>, batch |-> EmptyParsed, ack_start |-> FALSE,
     leftover |-> 0 - 1, crashed |-> FALSE]

Emit(h, sigs) == [h EXCEPT !.emitted = @ \o sigs]

IsAckOrErr(line) == StartsWith(line, T_ack) \/ StartsWith(line, T_err)

\* lines 302-306: the parser of fmt is fed; d is what its feed returned
FedAscii(h, raw, a) ==
    [h |-> [h EXCEPT !.ascii_buf = a.buf, !.fed = Append(@, [fmt |-> "ascii_dec", raw |-> raw])],
     raised |-> FALSE, result |-> a.result]
FedBinary(h, raw, fmt, b) ==
    [h |-> [h EXCEPT !.bin_buf = b.buf, !.fed = Append(@, [fmt |-> fmt, raw |-> raw])],
     raised |-> b.raised, result |-> b.result]
FeedParser(h, raw, fmt) ==
    IF fmt = "ascii_dec" THEN FedAscii(h, raw, AsciiParser_feed(h.ascii_buf, DecodeAscii(raw)))
    ELSE FedBinary(h, raw, fmt, BinaryParser_feed(h.bin_buf, raw))

\* lines 309-322: the signals of a decoded batch, in the order they are emitted
BatchSignals(result) ==
    [k \in 1..Len(SelectSeq(result.raw_lines, IsAckOrErr)) |-> <<"log", "rx">>]
    \o [k \in 1..Len(result.errors) |-> <<"log", "stream_error">>]
    \o (IF \/ result.samples # <<>> \/ result.timestamps # <<>> \/ result.errors # <<>>
           \/ result.end_of_acquisition \/ result.overcurrent
        THEN << <<"data_ready", result>> >> ELSE <<>>)
    \o [k \in 1..Len(result.ack_lines) |->
           <<"cmd_result", result.ack_lines[k][1], result.ack_lines[k][2], result.ack_lines[k][3]>>]

\* (mutant) the end of the acquisition is announced but the state is left as it is.
EndOfAcquisition_stays(h) ==
    Emit([h EXCEPT !.resp_buf = <<>>],
         << <<"acq_changed", FALSE>>, <<"log", "acq_ended">> >>)

\* lines 325-330
EndOfAcquisition(h) ==
    Emit([h EXCEPT !.state = "ready", !.resp_buf = <<>>],
         << <<"acq_changed", FALSE>>, <<"log", "acq_ended">> >>)

\* (mutant) an overcurrent flag ends the acquisition like the end marker.
AfterBatch_overcurrent_ends(h, result) ==
    [(IF result.overcurrent
      THEN Emit(EndOfAcquisition(h), << <<"log", "overcurrent">> >>)
      ELSE IF result.end_of_acquisition THEN EndOfAcquisition(h) ELSE h)
     EXCEPT !.batch = result]

\* lines 324-333
AfterBatch(h, result) ==
    [(IF result.overcurrent
      THEN Emit(IF result.end_of_acquisition THEN EndOfAcquisition(h) ELSE h,
                << <<"log", "overcurrent">> >>)
      ELSE IF result.end_of_acquisition THEN EndOfAcquisition(h) ELSE h)
     EXCEPT !.batch = result]

\* lines 308-333, d being what the parser returned
Decoded(d) ==
    IF d.raised THEN [d.h EXCEPT !.crashed = TRUE]
    ELSE AfterBatch(Emit(d.h, BatchSignals(d.result)), d.result)

handle_acquisition_data(h, raw, fmt) == Decoded(FeedParser(h, raw, fmt))

\* line 283: the leftover text handed on as bytes
Leftover(text) == EncodeAscii(text)

\* (mutant) only the parser of the selected format is reset.
ResetParsers_selected(h, fmt) ==
    IF fmt = "ascii_dec" THEN [h EXCEPT !.ascii_buf = <<>>] ELSE [h EXCEPT !.bin_buf = <<>>]

\* lines 277-278
ResetParsers(h, fmt) == [h EXCEPT !.ascii_buf = <<>>, !.bin_buf = <<>>]

\* lines 282-285, h being the fields after line 280
RouteLeftover(h, fmt) ==
    IF h.resp_buf # <<>>
    THEN handle_acquisition_data([h EXCEPT !.resp_buf = <<>>, !.leftover = Len(h.resp_buf)],
                                 Leftover(h.resp_buf), fmt)
    ELSE h

\* (mutant) the leftover is routed before the acquisition start is announced.
ack_start_late(h, fmt) ==
    Emit(RouteLeftover(ResetParsers([h EXCEPT !.state = "acquiring", !.ack_start = TRUE], fmt), fmt),
         << <<"acq_changed", TRUE>>, <<"log", "acq_started">> >>)

\* lines 273-286: the 'ack start' branch
ack_start(h, fmt) ==
    RouteLeftover(Emit(ResetParsers([h EXCEPT !.state = "acquiring", !.ack_start = TRUE], fmt),
                       << <<"acq_changed", TRUE>>, <<"log", "acq_started">> >>),
                  fmt)

\* line 264
StripPrompt(line) ==
    IF StartsWith(line, PROMPT) THEN SubSeq(line, Len(PROMPT) + 1, Len(line)) ELSE line

\* lines 267-269 and 295-297: (cmd, payload) of the text after the prefix
CmdAndPayload(text) == SplitFirst(Strip(text))

\* lines 266-286, parts being (cmd, payload)
AckLine(h, parts, fmt) ==
    IF parts[1] = T_start
    THEN ack_start(Emit(h, << <<"cmd_result", TRUE, parts[1], parts[2]>> >>), fmt)
    ELSE Emit(h, << <<"cmd_result", TRUE, parts[1], parts[2]>> >>)

\* lines 293-298, parts being (cmd, payload)
ErrorLine(h, parts, fmt) ==
    Emit(h, << <<"cmd_result", FALSE, parts[1], parts[2]>> >>)

\* lines 266-298, cmd_line being the line without the prompt
ResponseLine(h, cmd_line, fmt) ==
    IF StartsWith(cmd_line, T_ack)
    THEN AckLine(h, CmdAndPayload(SubSeq(cmd_line, 5, Len(cmd_line))), fmt)
    ELSE IF StartsWith(cmd_line, T_err)
    THEN Emit(h, << <<"cmd_result", FALSE, <<>>, Strip(SubSeq(cmd_line, 5, Len(cmd_line)))>> >>)
    ELSE IF StartsWith(cmd_line, T_error_sp)
    THEN ErrorLine(h, CmdAndPayload(SubSeq(cmd_line, 7, Len(cmd_line))), fmt)
    ELSE h

\* lines 257-264, sp being the result of split("\n", 1): the fields after one
\* pass of the loop body
SplitLine(h, line, rest, fmt) ==
    IF line = <<>> THEN [h EXCEPT !.resp_buf = rest]
    ELSE ResponseLine(Emit([h EXCEPT !.resp_buf = rest], << <<"log", "rx">> >>),
                      StripPrompt(line), fmt)
NextLine(h, sp, fmt) == SplitLine(h, RStripCR(sp[1]), sp[2], fmt)

\* line 286: the 'ack start' branch returns from the handler
Returned(h) == h.ack_start

\* The while loop of _handle_command_response; fmt is _data_format.
RECURSIVE response_lines(_, _)
response_lines(h, fmt) ==
    IF ~HasNewline(h.resp_buf) THEN h
    ELSE LET n == NextLine(h, SplitNewline(h.resp_buf), fmt)
         IN  IF Returned(n) THEN n ELSE response_lines(n, fmt)

handle_command_response(h, raw, fmt) ==
    response_lines([h EXCEPT !.resp_buf = @ \o DecodeAscii(raw)], fmt)

\* ----------------------------------------------------------------- steps
NoPre == [state |-> "idle", cmd_queue |-> <<>>, resp_buf |-> <<>>, ascii_buf |-> <<>>,
          bin_buf |-> <<>>, acq_fmt |-> "none"]
Pre == [state |-> state, cmd_queue |-> cmd_queue, resp_buf |-> resp_buf,
        ascii_buf |-> ascii_buf, bin_buf |-> bin_buf, acq_fmt |-> acq_fmt]
\* The last step: op names it, emitted are its signals, h what its handler did,
\* pre the fields before it, raw and w_state the handler's inputs.
Step(op, emitted) ==
    [op |-> op, emitted |-> emitted, fed |-> <<>>, batch |-> EmptyParsed, ack_start |-> FALSE,
     leftover |-> 0 - 1, raw |-> <<>>, w_state |-> "idle", w_fmt |-> "ascii_dec", pre |-> NoPre]

\* A step that emits nothing and that no property is about.
Quiet == Step("quiet", <<>>)

WorkerInit ==
    /\ serial = 0
    /\ keep_running = FALSE
    /\ state = "idle"
    /\ data_format = "ascii_dec"
    /\ cmd_queue = <<>>
    /\ resp_buf = <<>>
    /\ pending_cmd_name = <<>>
    /\ ascii_buf = <<>>
    /\ running = FALSE
    /\ pc = "top"
    /\ w_ser = 0 /\ w_state = "idle" /\ w_fmt = "ascii_dec" /\ w_cmd = NoCmd /\ w_raw = <<>>
    /\ w_resp = <<>>
    /\ gui = "idle"
    /\ g_ser = 0
    /\ port_open = {}
    /\ opened = 0
    /\ n_events = 0
    /\ run_disc = 0
    /\ ev = Quiet
    /\ owed = <<>>
    /\ acq_fmt = "none"

EncoderIdle == enc_cmd = "none" /\ enc_arg = 0 /\ enc_out = <<>>

DecoderIdle ==
    /\ t_units = <<>>
    /\ t_pos = 0
    /\ t_calls = 0
    /\ t_acc = EmptyParsed
    /\ t_first = "none"
    /\ t_raised = FALSE

HarnessIdle == EncoderIdle /\ DecoderIdle

Init == WorkerInit /\ wire \in ChunkFamilies /\ bin_buf = <<>> /\ HarnessIdle

parsers == <<ascii_buf, bin_buf>>
locals == <<w_ser, w_state, w_fmt, w_cmd, w_raw, w_resp>>
counters == <<opened, n_events>>

\* ---- control path (GUI thread)
\* connect_device, lines 146-150: _open_port succeeds
connect_open ==
    /\ gui = "idle" /\ n_events < MaxEvents
    /\ n_events' = n_events + 1
    /\ opened' = opened + 1
    /\ port_open' = port_open \cup {opened + 1}
    /\ g_ser' = opened + 1
    /\ gui' = "assign"
    /\ ev' = Quiet
    /\ UNCHANGED <<serial, keep_running, state, data_format, cmd_queue, resp_buf, pending_cmd_name,
                   parsers, running, pc, locals, wire, run_disc, harness_vars, owed, acq_fmt>>

\* connect_device, lines 148-150: _open_port raises
connect_open_fails ==
    /\ gui = "idle"
    /\ ev' = Step("connect_failed", << <<"conn_changed", FALSE, "error">> >>)
    /\ UNCHANGED <<serial, keep_running, state, data_format, cmd_queue, resp_buf, pending_cmd_name,
                   parsers, running, pc, locals, gui, g_ser, port_open, wire, counters, run_disc,
                   harness_vars, owed, acq_fmt>>

\* connect_device, lines 152-157
connect_assign ==
    /\ gui = "assign"
    /\ serial' = g_ser
    /\ keep_running' = TRUE
    /\ state' = "ready"
    /\ resp_buf' = <<>>
    /\ cmd_queue' = <<>>
    /\ gui' = "start"
    /\ ev' = Quiet
    /\ owed' = IF w_cmd = NoCmd THEN <<>> ELSE <<w_cmd>>   \* the FIFO is cleared, not the command in hand
    /\ acq_fmt' = "none"
    /\ UNCHANGED <<data_format, pending_cmd_name, parsers, running, pc, locals, g_ser, port_open,
                   wire, counters, run_disc, harness_vars>>

\* connect_device, lines 159-161
connect_start ==
    /\ gui = "start"
    /\ gui' = "idle"
    /\ IF running THEN UNCHANGED <<running, pc, run_disc>>
       ELSE running' = TRUE /\ pc' = "top" /\ run_disc' = 0
    /\ ev' = Step("connect_start", << <<"conn_changed", TRUE, "connected">> >>)
    /\ UNCHANGED <<serial, keep_running, state, data_format, cmd_queue, resp_buf, pending_cmd_name,
                   parsers, locals, g_ser, port_open, wire, counters, harness_vars, owed, acq_fmt>>

\* disconnect_device, lines 164-165
disconnect_request ==
    /\ gui = "idle"
    /\ keep_running' = FALSE
    /\ gui' = "wait"
    /\ ev' = Quiet
    /\ UNCHANGED <<serial, state, data_format, cmd_queue, resp_buf, pending_cmd_name, parsers,
                   running, pc, locals, g_ser, port_open, wire, counters, run_disc, harness_vars, owed, acq_fmt>>

\* disconnect_device, line 166: wait(3000) returns, the thread finished or not
disconnect_wait ==
    /\ gui = "wait"
    /\ gui' = "idle"
    /\ ev' = Quiet
    /\ UNCHANGED <<serial, keep_running, state, data_format, cmd_queue, resp_buf, pending_cmd_name,
                   parsers, running, pc, locals, g_ser, port_open, wire, counters, run_disc,
                   harness_vars, owed, acq_fmt>>

\* send_command
send_command ==
    /\ gui = "idle" /\ n_events < MaxEvents
    /\ \E c \in Commands : cmd_queue' = Append(cmd_queue, c) /\ owed' = Append(owed, c)
    /\ n_events' = n_events + 1
    /\ ev' = Quiet
    /\ UNCHANGED <<serial, keep_running, state, data_format, resp_buf, pending_cmd_name, parsers,
                   running, pc, locals, gui, g_ser, port_open, opened, wire, run_disc,
                   harness_vars, acq_fmt>>

\* set_data_format
set_data_format ==
    /\ gui = "idle"
    /\ \E f \in Formats : f # data_format /\ data_format' = f
    /\ ev' = Quiet
    /\ UNCHANGED <<serial, keep_running, state, cmd_queue, resp_buf, pending_cmd_name, parsers,
                   running, pc, locals, gui, g_ser, port_open, wire, counters, run_disc,
                   harness_vars, owed, acq_fmt>>

\* ---- worker thread: run()
\* lines 180-189
run_top ==
    /\ running /\ pc = "top"
    /\ IF ~keep_running THEN pc' = "cleanup" /\ UNCHANGED w_ser
       ELSE /\ w_ser' = serial
            /\ pc' = IF serial = 0 THEN "top"
                     ELSE IF state \in {"ready", "acquiring"} THEN "pop" ELSE "read"
    /\ ev' = Quiet
    /\ UNCHANGED <<serial, keep_running, state, data_format, cmd_queue, resp_buf, pending_cmd_name,
                   parsers, running, w_state, w_fmt, w_cmd, w_raw, w_resp, gui, g_ser, port_open, wire,
                   counters, run_disc, harness_vars, owed, acq_fmt>>

\* (mutant) the head of the FIFO is removed and not handed to the send section.
run_pop_discard ==
    /\ running /\ pc = "pop"
    /\ IF cmd_queue # <<>> THEN cmd_queue' = Tail(cmd_queue) ELSE UNCHANGED cmd_queue
    /\ w_cmd' = NoCmd
    /\ pc' = "read"
    /\ ev' = Quiet
    /\ UNCHANGED <<serial, keep_running, state, data_format, resp_buf, pending_cmd_name, parsers,
                   running, w_ser, w_state, w_fmt, w_raw, w_resp, gui, g_ser, port_open, wire, counters,
                   run_disc, harness_vars, owed, acq_fmt>>

\* (mutant) the newest command is taken from the FIFO.
run_pop_newest ==
    /\ running /\ pc = "pop"
    /\ IF cmd_queue # <<>>
       THEN w_cmd' = cmd_queue[Len(cmd_queue)] /\ cmd_queue' = SubSeq(cmd_queue, 1, Len(cmd_queue) - 1)
       ELSE w_cmd' = NoCmd /\ UNCHANGED cmd_queue
    /\ pc' = IF w_cmd'.bytes # <<>> THEN "write" ELSE "read"
    /\ ev' = Quiet
    /\ UNCHANGED <<serial, keep_running, state, data_format, resp_buf, pending_cmd_name, parsers,
                   running, w_ser, w_state, w_fmt, w_raw, w_resp, gui, g_ser, port_open, wire, counters,
                   run_disc, harness_vars, owed, acq_fmt>>

\* lines 193-199
run_pop ==
    /\ running /\ pc = "pop"
    /\ IF cmd_queue # <<>> THEN w_cmd' = Head(cmd_queue) /\ cmd_queue' = Tail(cmd_queue)
       ELSE w_cmd' = NoCmd /\ UNCHANGED cmd_queue
    /\ pc' = IF w_cmd'.bytes # <<>> THEN "write" ELSE "read"
    /\ ev' = Quiet
    /\ UNCHANGED <<serial, keep_running, state, data_format, resp_buf, pending_cmd_name, parsers,
                   running, w_ser, w_state, w_fmt, w_raw, w_resp, gui, g_ser, port_open, wire, counters,
                   run_disc, harness_vars, owed, acq_fmt>>

\* lines 200-206: write and flush succeed
run_write ==
    /\ running /\ pc = "write" /\ w_ser \in port_open
    /\ pending_cmd_name' = w_cmd.name
    /\ w_cmd' = NoCmd
    /\ pc' = "read"
    /\ ev' = Step("run_write", << <<"log", "tx">> >>)
    /\ owed' = Tail(owed)
    /\ UNCHANGED <<serial, keep_running, state, data_format, cmd_queue, resp_buf, parsers, running,
                   w_ser, w_state, w_fmt, w_raw, w_resp, gui, g_ser, port_open, wire, counters, run_disc,
                   harness_vars, acq_fmt>>

\* lines 207-208: where run() goes on after the except clause
AfterSendError == "read"

\* lines 200-208: write or flush raises SerialException
run_write_fails ==
    /\ running /\ pc = "write"
    /\ pc' = AfterSendError
    /\ w_cmd' = NoCmd
    /\ ev' = Step("run_write_fails", << <<"log", "send_error">> >>)
    /\ owed' = Tail(owed)
    /\ UNCHANGED <<serial, keep_running, state, data_format, cmd_queue, resp_buf, pending_cmd_name,
                   parsers, running, w_ser, w_state, w_fmt, w_raw, w_resp, gui, g_ser, port_open, wire,
                   counters, run_disc, harness_vars, acq_fmt>>

\* lines 211-223: nothing waiting
run_read_none ==
    /\ running /\ pc = "read" /\ w_ser \in port_open
    /\ pc' = "top"
    /\ ev' = Quiet
    /\ UNCHANGED <<serial, keep_running, state, data_format, cmd_queue, resp_buf, pending_cmd_name,
                   parsers, running, locals, gui, g_ser, port_open, wire, counters, run_disc,
                   harness_vars, owed, acq_fmt>>

\* lines 211-216 and 225-227: bytes read, then the state and format are read
\* under the lock (the read itself touches no shared field)
run_read ==
    /\ running /\ pc = "read" /\ w_ser \in port_open /\ n_events < MaxEvents
    /\ n_events' = n_events + 1
    /\ IF state \in {"ready", "acquiring"}
       THEN /\ \E c \in wire : w_raw' = c
            /\ w_state' = state /\ w_fmt' = data_format /\ pc' = "handle"
       ELSE pc' = "top" /\ UNCHANGED <<w_raw, w_state, w_fmt>>
    /\ ev' = Quiet
    /\ UNCHANGED <<serial, keep_running, state, data_format, cmd_queue, resp_buf, pending_cmd_name,
                   parsers, running, w_ser, w_cmd, w_resp, gui, g_ser, port_open, opened, wire, run_disc,
                   harness_vars, owed, acq_fmt>>

\* (mutant) a read error is logged and the loop goes on.
AfterReadError_continue == "top"

\* lines 217-219: where run() goes on after the except clause (break)
AfterReadError == "cleanup"

\* lines 217-219: in_waiting or read raises SerialException
run_read_fails ==
    /\ running /\ pc = "read"
    /\ pc' = AfterReadError
    /\ ev' = [Step("run_read_fails", << <<"log", "read_error">> >>) EXCEPT !.pre = Pre]
    /\ UNCHANGED <<serial, keep_running, state, data_format, cmd_queue, resp_buf, pending_cmd_name,
                   parsers, running, locals, gui, g_ser, port_open, wire, counters, run_disc,
                   harness_vars, owed, acq_fmt>>

\* What a handler did becomes the fields; an exception ends run() where it stands.
Commit(h) ==
    /\ state' = h.state
    /\ resp_buf' = h.resp_buf
    /\ ascii_buf' = h.ascii_buf
    /\ bin_buf' = h.bin_buf
    /\ acq_fmt' = IF h.state # "acquiring" THEN "none"
                  ELSE IF h.ack_start THEN data_format ELSE acq_fmt
    /\ pc' = IF h.crashed THEN "crashed" ELSE "top"
    /\ running' = ~h.crashed
    /\ ev' = [Step("run_handle", h.emitted) EXCEPT
                 !.fed = h.fed, !.batch = h.batch, !.ack_start = h.ack_start,
                 !.leftover = h.leftover, !.raw = w_raw, !.w_state = w_state,
                 !.w_fmt = w_fmt,
                 !.pre = [Pre EXCEPT !.resp_buf = IF w_state = "ready" THEN w_resp ELSE @]]

\* Fields as _handle_command_response sees them: the response buffer is the
\* value it read.
Seen == [Fields EXCEPT !.resp_buf = w_resp]

\* lines 229-230 and 254: _handle_command_response reads the response buffer; no
\* lock is held there nor at lines 256-257 and 282-284, so the control path can
\* write the field before the handler stores what it made of its copy
run_handle_load ==
    /\ running /\ pc = "handle" /\ w_state = "ready"
    /\ w_resp' = resp_buf
    /\ pc' = "respond"
    /\ ev' = Quiet
    /\ UNCHANGED <<serial, keep_running, state, data_format, cmd_queue, resp_buf, pending_cmd_name,
                   parsers, running, w_ser, w_state, w_fmt, w_cmd, w_raw, gui, g_ser, port_open,
                   wire, counters, run_disc, harness_vars, owed, acq_fmt>>

\* lines 229-232: the handler of the state read at line 226
run_handle ==
    /\ running
    /\ pc = "respond" \/ (pc = "handle" /\ w_state # "ready")
    /\ Commit(IF w_state = "ready" THEN handle_command_response(Seen, w_raw, data_format)
              ELSE handle_acquisition_data(Fields, w_raw, w_fmt))
    /\ w_raw' = <<>> /\ w_state' = "idle" /\ w_fmt' = "ascii_dec" /\ w_resp' = <<>>
    /\ UNCHANGED <<serial, keep_running, data_format, cmd_queue, pending_cmd_name, w_ser, w_cmd,
                   gui, g_ser, port_open, wire, counters, run_disc, harness_vars, owed>>

\* (mutant) the cleanup forgets the handle but leaves the state as it is.
run_cleanup_keeps_state ==
    /\ running /\ pc = "cleanup"
    /\ w_ser' = serial
    /\ serial' = 0
    /\ state' = state
    /\ pc' = "close"
    /\ ev' = [Step("run_cleanup", <<>>) EXCEPT !.pre = Pre]
    /\ acq_fmt' = "none"
    /\ UNCHANGED <<keep_running, data_format, cmd_queue, resp_buf, pending_cmd_name, parsers,
                   running, w_state, w_fmt, w_cmd, w_raw, w_resp, gui, g_ser, port_open, wire, counters,
                   run_disc, harness_vars, owed>>

\* lines 235-238
run_cleanup ==
    /\ running /\ pc = "cleanup"
    /\ w_ser' = serial
    /\ serial' = 0
    /\ state' = "idle"
    /\ pc' = "close"
    /\ ev' = [Step("run_cleanup", <<>>) EXCEPT !.pre = Pre]
    /\ acq_fmt' = "none"
    /\ UNCHANGED <<keep_running, data_format, cmd_queue, resp_buf, pending_cmd_name, parsers,
                   running, w_state, w_fmt, w_cmd, w_raw, w_resp, gui, g_ser, port_open, wire, counters,
                   run_disc, harness_vars, owed>>

\* lines 239-244, and run() returns
run_close ==
    /\ running /\ pc = "close"
    /\ port_open' = port_open \ {w_ser}
    /\ run_disc' = run_disc + 1
    /\ running' = FALSE
    /\ pc' = "top"
    /\ ev' = Step("run_close", << <<"conn_changed", FALSE, "Disconnected">> >>)
    /\ UNCHANGED <<serial, keep_running, state, data_format, cmd_queue, resp_buf, pending_cmd_name,
                   parsers, locals, gui, g_ser, counters, wire, harness_vars, owed, acq_fmt>>

Next ==
    \/ connect_open \/ connect_open_fails \/ connect_assign \/ connect_start
    \/ disconnect_request \/ disconnect_wait \/ send_command \/ set_data_format
    \/ run_top \/ run_pop \/ run_write \/ run_write_fails
    \/ run_read_none \/ run_read \/ run_read_fails
    \/ run_handle_load \/ run_handle \/ run_cleanup \/ run_close

Spec == Init /\ [][Next]_vars

\* The steps of run() around the handler call, and the handler call returning
\* (or raising): once started, the thread is scheduled until run() returns.
LoopStep ==
    \/ run_top \/ run_pop \/ run_write \/ run_write_fails
    \/ run_read_none \/ run_read \/ run_read_fails
    \/ run_handle_load \/ run_cleanup \/ run_close
HandlerReturns == running /\ pc \in {"handle", "respond"} /\ pc' \in {"top", "crashed"}

\* For the progress properties the transport delivers the chunks that move the
\* state or end the thread: the 'ack start' line, the end marker and a timestamp
\* frame cut before its last byte.
LiveChunks == {K_prompt_ack_start, K_end, K_bin_ts_cut}
InitFair == WorkerInit /\ wire = LiveChunks /\ bin_buf = <<>> /\ HarnessIdle

SpecFair == InitFair /\ [][Next]_vars /\ WF_vars(LoopStep) /\ WF_pc(HandlerReturns)

\* ------------------------------------------------------ decoder harness
\* The binary stream is a sequence of units; k names what the unit is.
SampleUnits ==
    { [k |-> "sample", b |-> <<0, 5>>],            \* neg_pow = 0
      [k |-> "sample", b |-> <<26, 240>>],         \* second byte 0xF0
      [k |-> "sample", b |-> <<47, 255>>] }        \* second byte 0xFF
FrameUnits ==
    { [k |-> "F1", b |-> <<240, 241, 69, 255, 255>>],
      [k |-> "F2", b |-> <<240, 242, 73, 255, 255>>],
      [k |-> "F3", b |-> <<240, 243, 0, 0, 10, 188, 50, 255, 255>>],
      [k |-> "F4", b |-> <<240, 244, 255, 255>>],
      [k |-> "F5", b |-> <<240, 245, 255, 255>>],
      [k |-> "F6", b |-> <<240, 246, 255, 255>>],
      [k |-> "F7", b |-> <<240, 247, 12, 228, 255, 255>>] }
MalformedUnits ==
    { [k |-> "bad", b |-> <<240, 243, 0, 0, 10, 188, 50, 0, 0>>],
      [k |-> "bad", b |-> <<240, 244, 0, 0>>],
      [k |-> "bad", b |-> <<240, 247, 12, 228, 0, 0>>] }
OtherUnits ==
    { [k |-> "unknown", b |-> <<240, 248>>],
      [k |-> "stray", b |-> <<255>>] }
Units == SampleUnits \cup FrameUnits \cup MalformedUnits \cup OtherUnits

RECURSIVE Flatten(_)
Flatten(us) == IF us = <<>> THEN <<>> ELSE Head(us).b \o Flatten(Tail(us))

Stream == Flatten(t_units)
FirstUnit == t_units[1]

\* ParsedData of several calls, concatenated field by field.
Merge(a, r) ==
    [samples |-> a.samples \o r.samples, ack_lines |-> a.ack_lines \o r.ack_lines,
     errors |-> a.errors \o r.errors, timestamps |-> a.timestamps \o r.timestamps,
     end_of_acquisition |-> a.end_of_acquisition \/ r.end_of_acquisition,
     overcurrent |-> a.overcurrent \/ r.overcurrent,
     raw_lines |-> a.raw_lines \o r.raw_lines]

InitBin ==
    /\ WorkerInit /\ wire = {}
    /\ t_units \in UNION {[1..n -> Units] : n \in 1..MaxUnits}
    /\ bin_buf = <<>>
    /\ t_pos = 0
    /\ t_calls = 0
    /\ t_acc = EmptyParsed
    /\ t_first = "none"
    /\ t_raised = FALSE
    /\ EncoderIdle

\* One call of BinaryParser.feed with the next n bytes of the stream.
FeedBin ==
    \E n \in 1..(Len(Stream) - t_pos) :
        LET r == BinaryParser_feed(bin_buf, Slice(Stream, t_pos, t_pos + n))
        IN  /\ bin_buf' = r.buf
            /\ t_pos' = t_pos + n
            /\ t_calls' = t_calls + 1
            /\ t_acc' = Merge(t_acc, r.result)
            /\ t_first' = IF t_calls > 0 THEN t_first
                          ELSE IF n = Len(FirstUnit.b) - 2 THEN "terminator" ELSE "other"
            /\ t_raised' = (t_raised \/ r.raised)
            /\ UNCHANGED <<t_units, worker_vars, encoder_vars>>

NextBin == FeedBin

SpecBin == InitBin /\ [][NextBin]_vars

\* ---- byte pairs: one regular sample, every first byte below 0xF0
PairFirst == 0..239
PairSecond == 0..255
InitPair ==
    /\ WorkerInit /\ wire = {}
    /\ t_units \in {<<[k |-> "sample", b |-> <<b1, b2>>]>> : b1 \in PairFirst, b2 \in PairSecond}
    /\ bin_buf = <<>>
    /\ t_pos = 0
    /\ t_calls = 0
    /\ t_acc = EmptyParsed
    /\ t_first = "none"
    /\ t_raised = FALSE
    /\ EncoderIdle

SpecPair == InitPair /\ [][NextBin]_vars

\* ---- timestamp frames: F0 F3 t0 t1 t2 t3 p FF FF, the five bytes drawn from
\* StampBytes (0x00, 0x0A, 0x80, 0xBC, 0xFF)
StampBytes == {0, 10, 128, 188, 255}
InitStamp ==
    /\ WorkerInit /\ wire = {}
    /\ t_units \in {<<[k |-> "F3", b |-> <<240, 243, t[1], t[2], t[3], t[4], t[5], 255, 255>>]>> :
                        t \in [1..5 -> StampBytes]}
    /\ bin_buf = <<>>
    /\ t_pos = 0
    /\ t_calls = 0
    /\ t_acc = EmptyParsed
    /\ t_first = "none"
    /\ t_raised = FALSE
    /\ EncoderIdle

SpecStamp == InitStamp /\ [][NextBin]_vars

\* ---- unknown headers: F0 and a type byte F8..FF, alone or followed by a
\* sample or a recognized frame
UnknownHeaders == {[k |-> "unknown", b |-> <<240, t>>] : t \in 248..255}
InitUnknown ==
    /\ WorkerInit /\ wire = {}
    /\ \/ t_units \in {<<h>> : h \in UnknownHeaders}
       \/ t_units \in {<<h, u>> : h \in UnknownHeaders, u \in SampleUnits \cup FrameUnits}
    /\ bin_buf = <<>>
    /\ t_pos = 0
    /\ t_calls = 0
    /\ t_acc = EmptyParsed
    /\ t_first = "none"
    /\ t_raised = FALSE
    /\ EncoderIdle

SpecUnknown == InitUnknown /\ [][NextBin]_vars

\* ---- stray bytes: one byte F0..FF directly before a complete recognized frame
InitStray ==
    /\ WorkerInit /\ wire = {}
    /\ t_units \in {<<[k |-> "stray", b |-> <<x>>], f>> : x \in 240..255, f \in FrameUnits}
    /\ bin_buf = <<>>
    /\ t_pos = 0
    /\ t_calls = 0
    /\ t_acc = EmptyParsed
    /\ t_first = "none"
    /\ t_raised = FALSE
    /\ EncoderIdle

SpecStray == InitStray /\ [][NextBin]_vars

\* ------------------------------------------- decoder claims (SpecBin)
AllFed == t_pos = Len(Stream)
InSeq(x, s) == \E k \in 1..Len(s) : s[k] = x

\* What the format's table makes of one well-formed unit.
UnitEvent(u) ==
    CASE u.k = "sample" -> [EmptyParsed EXCEPT !.samples = <<BinarySample(u.b[1], u.b[2])>>]
      [] u.k = "F1" -> [EmptyParsed EXCEPT !.errors = <<Slice(u.b, 2, Len(u.b) - 2)>>]
      [] u.k = "F3" -> [EmptyParsed EXCEPT !.timestamps = << <<2748, 50>> >>]
      [] u.k = "F4" -> [EmptyParsed EXCEPT !.end_of_acquisition = TRUE]
      [] u.k = "F5" -> [EmptyParsed EXCEPT !.overcurrent = TRUE]
      [] OTHER -> EmptyParsed

\* C1: a recognized metadata frame cut strictly inside: the calls that feed the
\* prefix return normally, report nothing and keep every byte from 0xF0 on in the
\* carry-over; once the rest is fed the frame's one event, and only it, is reported.
C1_CutFrameBuffered ==
    FirstUnit \in FrameUnits =>
        /\ (0 < t_pos /\ t_pos < Len(FirstUnit.b)) =>
               (~t_raised /\ t_acc = EmptyParsed /\ bin_buf = Slice(Stream, 0, t_pos))
        /\ (t_pos = Len(FirstUnit.b) /\ t_calls >= 2) =>
               (~t_raised /\ t_acc = UnitEvent(FirstUnit) /\ bin_buf = <<>>)

\* C2: regular 2-byte samples split over feed calls at any byte boundaries give
\* the same samples, in value and order, as one feed of the same bytes to a fresh
\* decoder, which are the samples of the byte pairs in stream order.
AllSamples == \A k \in 1..Len(t_units) : t_units[k] \in SampleUnits
C2_SplitSamplesEqualWhole ==
    AllSamples =>
        /\ ~t_raised
        /\ t_acc.samples = BinaryParser_feed(<<>>, Slice(Stream, 0, t_pos)).result.samples
        /\ AllFed => t_acc.samples = [k \in 1..Len(t_units) |->
                                          BinarySample(t_units[k].b[1], t_units[k].b[2])]
C2_Witness ==
    /\ AllSamples /\ Len(t_units) = 2 /\ AllFed
    /\ t_calls = 3                      \* 4 bytes in 3 calls: a call ended inside a sample
    /\ Len(t_acc.samples) = 2

\* C10: a recognized header whose full length is there but whose terminator is
\* not 0xFF 0xFF is dropped: the valid unit that follows is decoded and returned,
\* and the carry-over does not keep growing.
C10_MalformedDropped ==
    ( /\ Len(t_units) = 2
      /\ t_units[1] \in MalformedUnits
      /\ t_units[2] \in SampleUnits \cup FrameUnits
      /\ AllFed /\ ~t_raised )
    => LET e == UnitEvent(t_units[2])
       IN  /\ \A k \in 1..Len(e.samples) : InSeq(e.samples[k], t_acc.samples)
           /\ \A k \in 1..Len(e.errors) : InSeq(e.errors[k], t_acc.errors)
           /\ \A k \in 1..Len(e.timestamps) : InSeq(e.timestamps[k], t_acc.timestamps)
           /\ e.end_of_acquisition => t_acc.end_of_acquisition
           /\ e.overcurrent => t_acc.overcurrent
           /\ Len(bin_buf) < Len(Stream)

\* Events a batch reports: samples, ack lines, errors, timestamps, end, overcurrent.
EventCount(r) ==
    Len(r.samples) + Len(r.ack_lines) + Len(r.errors) + Len(r.timestamps)
    + (IF r.end_of_acquisition THEN 1 ELSE 0) + (IF r.overcurrent THEN 1 ELSE 0)

\* The first call fed the first unit up to its two terminator bytes, the second
\* call the terminator.
CutBeforeTerminator ==
    /\ FirstUnit \in FrameUnits /\ t_calls >= 1
    /\ t_first = "terminator"
TerminatorFed == t_calls = 2 /\ t_pos = Len(FirstUnit.b)

\* C11 (as stated): a recognized frame fed without its terminator and completed
\* by the terminator in a second call yields exactly one event in total, in the
\* second call, and no sample.
C11_OneEventPerFrame ==
    CutBeforeTerminator =>
        /\ t_calls = 1 => (~t_raised /\ EventCount(t_acc) = 0)
        /\ TerminatorFed => (~t_raised /\ EventCount(t_acc) = 1 /\ t_acc.samples = <<>>)

\* C11 (amended): such a frame is consumed exactly once, by the second call: the
\* first call reports nothing and keeps the bytes, the second reports the frame's
\* event and empties the carry-over: one error (F1), timestamp (F3), end (F4) or
\* overcurrent (F5) event, nothing for the frames the decoder only skips (F2, F6,
\* F7); never two events and never a sample.
C11_FrameConsumedOnce ==
    CutBeforeTerminator =>
        /\ t_calls = 1 =>
              (~t_raised /\ t_acc = EmptyParsed /\ bin_buf = Slice(Stream, 0, t_pos))
        /\ TerminatorFed =>
              /\ ~t_raised /\ t_acc = UnitEvent(FirstUnit) /\ bin_buf = <<>>
              /\ EventCount(t_acc) <= 1 /\ t_acc.samples = <<>>
              /\ FirstUnit.k \in {"F1", "F3", "F4", "F5"} <=> EventCount(t_acc) = 1
C11_Witness ==
    /\ CutBeforeTerminator /\ TerminatorFed
    /\ FirstUnit.k = "F3" /\ t_acc.timestamps = << <<2748, 50>> >>

\* ------------------------------------------------ ASCII decoder harness
\* The text stream is a sequence of lines with their terminators:
\*   sample     '6409-07\r\n'
\*   short      '12\n'
\*   ack        'ack stop\n'
\*   err        'err x\r\n'
\*   end        'end\n'
\*   error      'error e\n'
\*   timestamp  'Timestamp 1s 2ms 3%\n'
\*   empty      '\r\n'
TextUnits ==
    {
      [k |-> "sample", b |-> <<54, 52, 48, 57, 45, 48, 55, 13, 10>>],
      [k |-> "short", b |-> <<49, 50, 10>>],
      [k |-> "ack", b |-> <<97, 99, 107, 32, 115, 116, 111, 112, 10>>],
      [k |-> "err", b |-> <<101, 114, 114, 32, 120, 13, 10>>],
      [k |-> "end", b |-> <<101, 110, 100, 10>>],
      [k |-> "error", b |-> <<101, 114, 114, 111, 114, 32, 101, 10>>],
      [k |-> "timestamp", b |-> <<84, 105, 109, 101, 115, 116, 97, 109, 112, 32, 49, 115, 32, 50, 109, 115, 32, 51, 37, 10>>],
      [k |-> "empty", b |-> <<13, 10>>]
    }

InitAscii ==
    /\ WorkerInit /\ wire = {}
    /\ bin_buf = <<>>
    /\ t_units \in UNION {[1..n -> TextUnits] : n \in 1..MaxLines}
    /\ t_pos = 0
    /\ t_calls = 0
    /\ t_acc = EmptyParsed
    /\ t_first = "none"
    /\ t_raised = FALSE
    /\ EncoderIdle

\* One call of AsciiParser.feed with the next n characters of the stream.
FeedAscii ==
    \E n \in 1..(Len(Stream) - t_pos) :
        LET r == AsciiParser_feed(ascii_buf, Slice(Stream, t_pos, t_pos + n))
        IN  /\ ascii_buf' = r.buf
            /\ t_pos' = t_pos + n
            /\ t_calls' = t_calls + 1
            /\ t_acc' = Merge(t_acc, r.result)
            /\ t_first' = IF t_calls > 0 THEN t_first ELSE "other"
            /\ UNCHANGED <<serial, keep_running, state, data_format, cmd_queue, resp_buf,
                           pending_cmd_name, bin_buf, running, pc, locals, gui, g_ser,
                           port_open, wire, counters, run_disc, ev, owed, acq_fmt, t_units, t_raised,
                           encoder_vars>>

NextAscii == FeedAscii

SpecAscii == InitAscii /\ [][NextAscii]_vars

\* ---- sample lines: one line DDDDSZZ with its terminator, fed in any split
\* The digits and the sign characters the lines are drawn from: '0' '5' '9', and
\* '-' '+' ' ' 'x' and a carriage return in the sign position.
SampleDigits == {48, 53, 57}
SampleSigns == {45, 43, 32, 120, 13}
LineEnds == {<<10>>, <<13, 10>>}
SampleLines ==
    {<<d[1], d[2], d[3], d[4], sg, d[5], d[6]>> : d \in [1..6 -> SampleDigits], sg \in SampleSigns}

InitSample ==
    /\ WorkerInit /\ wire = {}
    /\ bin_buf = <<>>
    /\ t_units \in {<<[k |-> "sample", b |-> l \o e]>> : l \in SampleLines, e \in LineEnds}
    /\ t_pos = 0
    /\ t_calls = 0
    /\ t_acc = EmptyParsed
    /\ t_first = "none"
    /\ t_raised = FALSE
    /\ EncoderIdle

SpecSample == InitSample /\ [][NextAscii]_vars

\* ---- timestamp lines: the word in one of three letter cases, then any of the
\* tokens ' 1s', ' 2ms', ' 3%', then the newline; sec, ms and pct are the
\* numbers of the tokens present (0: absent)
T_TIMESTAMP == <<84, 73, 77, 69, 83, 84, 65, 77, 80>>
StampWords == {T_Timestamp, T_timestamp, T_TIMESTAMP}
StampLines ==
    { [k |-> "timestamp", sec |-> a, ms |-> b, pct |-> c,
       b |-> w \o (IF a > 0 THEN <<32, 49, 115>> ELSE <<>>)
              \o (IF b > 0 THEN <<32, 50, 109, 115>> ELSE <<>>)
              \o (IF c > 0 THEN <<32, 51, 37>> ELSE <<>>) \o <<10>>] :
      w \in StampWords, a \in {0, 1}, b \in {0, 2}, c \in {0, 3} }

InitStampLine ==
    /\ WorkerInit /\ wire = {}
    /\ bin_buf = <<>>
    /\ t_units \in {<<u>> : u \in StampLines}
    /\ t_pos = 0
    /\ t_calls = 0
    /\ t_acc = EmptyParsed
    /\ t_first = "none"
    /\ t_raised = FALSE
    /\ EncoderIdle

SpecStampLine == InitStampLine /\ [][NextAscii]_vars

\* ------------------------------------------------- Commands (protocol.py)
\* str(n) of an integer: its decimal digits, '-' first when negative
RECURSIVE DecimalDigits(_)
DecimalDigits(n) == IF n < 10 THEN <<48 + n>> ELSE DecimalDigits(n \div 10) \o <<48 + (n % 10)>>
Str(n) == IF n < 0 THEN <<45>> \o DecimalDigits(0 - n) ELSE DecimalDigits(n)

T_freq_sp == <<102, 114, 101, 113, 32>>                       \* "freq "
T_acqtime_sp == <<97, 99, 113, 116, 105, 109, 101, 32>>       \* "acqtime "

\* _enc: the text and a newline, as ASCII bytes
Commands_enc(text) == text \o <<NL>>

\* The hz values of FREQ_OPTIONS.
FREQ_OPTIONS ==
    {100000, 50000, 20000, 10000, 5000, 2000, 1000, 500, 200, 100, 50, 20, 10, 5, 2, 1}

\* (mutant) the kilohertz number goes out without its suffix.
Commands_freq_bare(hz) ==
    IF hz >= 1000 THEN Commands_enc(T_freq_sp \o Str(hz \div 1000))
    ELSE Commands_enc(T_freq_sp \o Str(hz))

Commands_freq(hz) ==
    IF hz >= 1000 THEN Commands_enc(T_freq_sp \o Str(hz \div 1000) \o <<107>>)
    ELSE Commands_enc(T_freq_sp \o Str(hz))

\* A float number of seconds is taken as a whole number of ticks of 1/4096 s:
\* such a value, its product with 1000 and the rounding of the product are exact
\* in binary floating point.
Ticks == 4096

\* round(num / den) as Python rounds a float: to the nearest integer, a tie to
\* the even one (num >= 0, den > 0)
Round(num, den) ==
    LET q == num \div den
        r == num % den
    IN  IF 2 * r > den \/ (2 * r = den /\ q % 2 = 1) THEN q + 1 ELSE q

\* acqtime(seconds), seconds = t / Ticks
Commands_acqtime(t) ==
    IF t <= 0 THEN Commands_enc(T_acqtime_sp \o <<48>>)
    ELSE LET ms == Round(t * 1000, Ticks)
         IN  IF ms < 1000 THEN Commands_enc(T_acqtime_sp \o Str(ms) \o <<109>>)
             ELSE Commands_enc(T_acqtime_sp \o Str(t \div Ticks))   \* int(seconds)

\* ---- builder harness: the argument is drawn at the start, the call applies
\* the builder to it
FreqInputs == FREQ_OPTIONS \cup {0, 999, 1001, 1500, 123456}
TickInputs == ((0 - 4)..(2 * Ticks + 8)) \cup {5 * Ticks}

InitEnc ==
    /\ WorkerInit /\ wire = {}
    /\ bin_buf = <<>>
    /\ DecoderIdle
    /\ \/ enc_cmd = "freq" /\ enc_arg \in FreqInputs
       \/ enc_cmd = "acqtime" /\ enc_arg \in TickInputs
    /\ enc_out = <<>>

call_freq ==
    /\ enc_cmd = "freq" /\ enc_out = <<>>
    /\ enc_out' = Commands_freq(enc_arg)
    /\ UNCHANGED <<worker_vars, bin_buf, t_units, t_pos, t_calls, t_acc, t_first, t_raised,
                   enc_cmd, enc_arg>>

call_acqtime ==
    /\ enc_cmd = "acqtime" /\ enc_out = <<>>
    /\ enc_out' = Commands_acqtime(enc_arg)
    /\ UNCHANGED <<worker_vars, bin_buf, t_units, t_pos, t_calls, t_acc, t_first, t_raised,
                   enc_cmd, enc_arg>>

NextEnc == call_freq \/ call_acqtime

SpecEnc == InitEnc /\ [][NextEnc]_vars

\* ---- both decoders: a binary stream is fed to the binary decoder, a text
\* stream to the ASCII decoder
BinaryStreamUnits ==
    { [k |-> "sample", b |-> <<26, 240>>],
      [k |-> "F3", b |-> <<240, 243, 0, 0, 10, 188, 50, 255, 255>>],
      [k |-> "bad", b |-> <<240, 244, 0, 0>>],
      [k |-> "unknown", b |-> <<240, 248>>],
      [k |-> "stray", b |-> <<255>>] }
TextStreamUnits ==
    { [k |-> "sample", b |-> <<54, 52, 48, 57, 45, 48, 55, 13, 10>>],
      [k |-> "short", b |-> <<49, 50, 10>>],
      [k |-> "end", b |-> <<101, 110, 100, 10>>],
      [k |-> "empty", b |-> <<13, 10>>] }
IsBinaryStream == FirstUnit \in BinaryStreamUnits

InitDec ==
    /\ WorkerInit /\ wire = {}
    /\ bin_buf = <<>>
    /\ \/ t_units \in UNION {[1..n -> BinaryStreamUnits] : n \in 1..MaxUnits}
       \/ t_units \in UNION {[1..n -> TextStreamUnits] : n \in 1..MaxLines}
    /\ t_pos = 0
    /\ t_calls = 0
    /\ t_acc = EmptyParsed
    /\ t_first = "none"
    /\ t_raised = FALSE
    /\ EncoderIdle

feed_binary == IsBinaryStream /\ FeedBin
feed_ascii == ~IsBinaryStream /\ FeedAscii
NextDec == feed_binary \/ feed_ascii

SpecDec == InitDec /\ [][NextDec]_vars

\* ---- the three decode loops, one pass of the loop body per step.  t_first
\* names the loop; pc is "loop" at the while test, "returned" once the call has
\* returned and "crashed" once an exception has left it; t_pos is the cursor of
\* the binary loop, t_acc the ParsedData of the call, t_calls the passes made;
\* w_raw is the buffer the loop started with (carry-over and input together).
ResponseUnits ==
    { [k |-> "ack", b |-> K_ack_start],
      [k |-> "ack", b |-> K_ack_stop],
      [k |-> "error", b |-> K_error],
      [k |-> "other", b |-> K_end],
      [k |-> "empty", b |-> <<13, 10>>],
      [k |-> "other", b |-> K_sample] }
Prefixes(st) == {Slice(st, 0, n) : n \in 0..Len(st)}

InitLoop ==
    /\ \/ /\ t_first = "binary" /\ state = "acquiring" /\ data_format = "bin_hexa"
          /\ t_units \in UNION {[1..n -> BinaryStreamUnits] : n \in 1..MaxUnits}
          /\ bin_buf \in Prefixes(Stream) /\ ascii_buf = <<>> /\ resp_buf = <<>>
          /\ w_raw = bin_buf
       \/ /\ t_first = "ascii" /\ state = "acquiring" /\ data_format = "ascii_dec"
          /\ t_units \in UNION {[1..n -> TextStreamUnits] : n \in 1..MaxLines}
          /\ ascii_buf \in Prefixes(Stream) /\ bin_buf = <<>> /\ resp_buf = <<>>
          /\ w_raw = ascii_buf
       \/ /\ t_first = "response" /\ state = "ready" /\ data_format \in Formats
          /\ t_units \in UNION {[1..n -> ResponseUnits] : n \in 1..MaxLines}
          /\ resp_buf \in Prefixes(Stream) /\ ascii_buf = <<>> /\ bin_buf = <<>>
          /\ w_raw = resp_buf
    /\ acq_fmt = IF state = "acquiring" THEN data_format ELSE "none"
    /\ serial = 1 /\ port_open = {1} /\ opened = 1 /\ g_ser = 0 /\ gui = "idle"
    /\ keep_running = TRUE /\ running = TRUE
    /\ pc = "loop"
    /\ cmd_queue = <<>> /\ pending_cmd_name = <<>> /\ wire = {}
    /\ w_ser = 1 /\ w_state = state /\ w_fmt = data_format /\ w_cmd = NoCmd /\ w_resp = <<>>
    /\ n_events = 0 /\ run_disc = 0 /\ ev = Quiet /\ owed = <<>>
    /\ t_pos = 0 /\ t_calls = 0 /\ t_acc = EmptyParsed /\ t_raised = FALSE
    /\ EncoderIdle

\* What no pass of a decode loop writes.
loop_rest == <<serial, keep_running, data_format, cmd_queue, pending_cmd_name, running, w_ser,
               w_state, w_fmt, w_cmd, w_raw, w_resp, gui, g_ser, port_open, opened, wire,
               n_events, run_disc, owed, t_units, t_first, encoder_vars>>

\* data_parser.py lines 186-212: one pass of the loop of BinaryParser.feed; a
\* pass that leaves the loop stores the carry-over (line 214)
binary_pass ==
    /\ t_first = "binary" /\ pc = "loop" /\ t_pos + 1 < Len(bin_buf)
    /\ LET it == BinaryParser_iteration(bin_buf, t_pos, t_acc)
       IN  /\ t_pos' = it.pos
           /\ t_acc' = IF it.raised THEN EmptyParsed ELSE it.result
           /\ t_raised' = it.raised
           /\ pc' = IF it.raised THEN "crashed" ELSE IF it.left THEN "returned" ELSE "loop"
           /\ bin_buf' = IF it.left /\ ~it.raised THEN CarryOver(bin_buf, it.pos) ELSE bin_buf
    /\ t_calls' = t_calls + 1
    /\ UNCHANGED <<loop_rest, state, resp_buf, ascii_buf, ev, acq_fmt>>

\* data_parser.py lines 186 and 214: the test fails, the carry-over is stored
binary_return ==
    /\ t_first = "binary" /\ pc = "loop" /\ ~(t_pos + 1 < Len(bin_buf))
    /\ pc' = "returned"
    /\ bin_buf' = CarryOver(bin_buf, t_pos)
    /\ UNCHANGED <<loop_rest, state, resp_buf, ascii_buf, ev, acq_fmt, t_pos, t_calls, t_acc,
                   t_raised>>

\* data_parser.py lines 72-78: one pass of the loop of AsciiParser.feed
ascii_pass ==
    /\ t_first = "ascii" /\ pc = "loop" /\ HasNewline(ascii_buf)
    /\ LET it == AsciiParser_iteration(ascii_buf, t_acc)
       IN  /\ ascii_buf' = it.buf
           /\ t_acc' = it.result
    /\ t_calls' = t_calls + 1
    /\ UNCHANGED <<loop_rest, state, resp_buf, bin_buf, ev, acq_fmt, pc, t_pos, t_raised>>

\* data_parser.py lines 72 and 80
ascii_return ==
    /\ t_first = "ascii" /\ pc = "loop" /\ ~HasNewline(ascii_buf)
    /\ pc' = "returned"
    /\ UNCHANGED <<loop_rest, state, resp_buf, parsers, ev, acq_fmt, t_pos, t_calls, t_acc,
                   t_raised>>

\* What one pass of the response loop did becomes the fields; the 'ack start'
\* branch returns, an exception leaves the handler.
CommitPass(n) ==
    /\ state' = n.state
    /\ resp_buf' = n.resp_buf
    /\ ascii_buf' = n.ascii_buf
    /\ bin_buf' = n.bin_buf
    /\ acq_fmt' = IF n.state = "acquiring" THEN data_format ELSE "none"
    /\ ev' = [Step("response_pass", n.emitted) EXCEPT
                 !.fed = n.fed, !.batch = n.batch, !.ack_start = n.ack_start,
                 !.leftover = n.leftover, !.w_state = "ready", !.w_fmt = data_format,
                 !.pre = Pre]
    /\ t_raised' = n.crashed
    /\ pc' = IF n.crashed THEN "crashed" ELSE IF Returned(n) THEN "returned" ELSE "loop"

\* serial_worker.py lines 256-298: one pass of the loop of
\* _handle_command_response
response_pass ==
    /\ t_first = "response" /\ pc = "loop" /\ HasNewline(resp_buf)
    /\ CommitPass(NextLine(Fields, SplitNewline(resp_buf), data_format))
    /\ t_calls' = t_calls + 1
    /\ UNCHANGED <<loop_rest, t_pos, t_acc>>

\* serial_worker.py line 256: the test fails and the handler returns
response_return ==
    /\ t_first = "response" /\ pc = "loop" /\ ~HasNewline(resp_buf)
    /\ pc' = "returned"
    /\ UNCHANGED <<loop_rest, state, resp_buf, parsers, ev, acq_fmt, t_pos, t_calls, t_acc,
                   t_raised>>

NextLoop ==
    \/ binary_pass \/ binary_return
    \/ ascii_pass \/ ascii_return
    \/ response_pass \/ response_return

\* The thread that runs a decode call keeps running it: at the while test the
\* next pass, or the return, is taken.
LoopMoves ==
    /\ pc = "loop"
    /\ \/ pc' = "loop" /\ t_calls' = t_calls + 1
       \/ pc' \in {"returned", "crashed"} /\ t_calls' \in {t_calls, t_calls + 1}
SpecLoop == InitLoop /\ [][NextLoop]_vars /\ WF_<<pc, t_calls>>(LoopMoves)

\* ---- digit-leading lines that are no sample DDDDSZZ, alone or next to
\* another line:
\*   '12'  '640-07'  '64x9-07'  '6409-0x'  '6409-'  '1_23-07'  '6409-+7'
DigitLines ==
    { [k |-> "digit", b |-> <<49, 50, 10>>],
      [k |-> "digit", b |-> <<54, 52, 48, 45, 48, 55, 10>>],
      [k |-> "digit", b |-> <<54, 52, 120, 57, 45, 48, 55, 13, 10>>],
      [k |-> "digit", b |-> <<54, 52, 48, 57, 45, 48, 120, 10>>],
      [k |-> "digit", b |-> <<54, 52, 48, 57, 45, 10>>],
      [k |-> "digit", b |-> <<49, 95, 50, 51, 45, 48, 55, 10>>],
      [k |-> "digit", b |-> <<54, 52, 48, 57, 45, 43, 55, 10>>] }

InitDigit ==
    /\ WorkerInit /\ wire = {}
    /\ bin_buf = <<>>
    /\ \/ t_units \in {<<d>> : d \in DigitLines}
       \/ t_units \in {<<d, u>> : d \in DigitLines, u \in TextUnits}
       \/ t_units \in {<<u, d>> : d \in DigitLines, u \in TextUnits}
    /\ t_pos = 0
    /\ t_calls = 0
    /\ t_acc = EmptyParsed
    /\ t_first = "none"
    /\ t_raised = FALSE
    /\ EncoderIdle

SpecDigit == InitDigit /\ [][NextAscii]_vars

\* ------------------------------------ ASCII decoder claims (SpecAscii)
Fed == Slice(Stream, 0, t_pos)
AfterLastNewline(s) ==
    IF HasNewline(s)
    THEN SubSeq(s, (CHOOSE k \in 1..Len(s) : s[k] = NL /\ \A j \in (k + 1)..Len(s) : s[j] # NL) + 1,
                Len(s))
    ELSE s
\* The lines of the units, without terminators, the empty ones left out.
RECURSIVE UnitLines(_)
UnitLines(us) ==
    IF us = <<>> THEN <<>>
    ELSE LET line == SelectSeq(Head(us).b, LAMBDA c : c # NL /\ c # CR)
         IN  (IF line = <<>> THEN <<>> ELSE <<line>>) \o UnitLines(Tail(us))

\* C12: for any text and any split of it into consecutive feed calls, the
\* concatenated samples, ack lines, errors, timestamps and raw lines and the OR of
\* the end flags equal those of one feed of the same text; after each call the
\* carry-over is the text after the last newline; fed completely, every line is
\* reported once, in order.
C12_SplitTextEqualsWhole ==
    /\ t_acc = AsciiParser_feed(<<>>, Fed).result
    /\ ascii_buf = AfterLastNewline(Fed)
    /\ AllFed => t_acc.raw_lines = UnitLines(t_units)
C12_Witness ==
    /\ AllFed /\ Len(t_units) = 2 /\ t_calls = 3
    /\ t_units[1].k = "sample" /\ t_units[2].k = "err"
    /\ Len(t_acc.samples) = 1 /\ Len(t_acc.ack_lines) = 1 /\ Len(t_acc.raw_lines) = 2

\* ------------------------------------------------- worker claims (Spec)
Handled == ev.op = "run_handle"
CountSig(sig) == Cardinality({k \in 1..Len(ev.emitted) : ev.emitted[k] = sig})
AckedStart ==
    \E k \in 1..Len(ev.emitted) :
        /\ ev.emitted[k][1] = "cmd_result" /\ ev.emitted[k][2] = TRUE
        /\ ev.emitted[k][3] = T_start
StopAcked(result) ==
    \E k \in 1..Len(result.ack_lines) :
        result.ack_lines[k][1] = TRUE /\ result.ack_lines[k][2] = T_stop

\* C3: when 'ack start' is processed in state ready and the response buffer holds
\* bytes past the ack line, the bytes handed to the active decoder are exactly the
\* bytes the transport delivered after the ack line's newline (the tail of the
\* chunk read), in either format, and the response buffer is left empty.
C3_LeftoverBytesExact ==
    (Handled /\ ev.w_state = "ready" /\ ev.ack_start
     /\ 0 < ev.leftover /\ ev.leftover <= Len(ev.raw))
    => /\ Len(ev.fed) = 1
       /\ ev.fed[1].fmt = data_format
       /\ ev.fed[1].raw = SubSeq(ev.raw, Len(ev.raw) - ev.leftover + 1, Len(ev.raw))
       /\ resp_buf = <<>>

\* C4: in state ready a response line 'ack start', with or without the prompt,
\* sets the state to acquiring (it is ready again only if the leftover already
\* held the end marker), empties the carry-over of both decoders before the
\* leftover is fed (what they hold afterwards is what fresh decoders keep of the
\* leftover), and emits the acquisition-started notification exactly once; when
\* no 'ack start' is processed the handler leaves state and decoders alone.
C4_AckStartEntersAcquiring ==
    (Handled /\ ev.w_state = "ready") =>
        /\ ( /\ ev.pre.resp_buf = <<>>
             /\ StartsWith(ev.raw, K_ack_start) \/ StartsWith(ev.raw, K_prompt_ack_start) )
           => AckedStart
        /\ AckedStart =>
              /\ CountSig(<<"acq_changed", TRUE>>) = 1
              /\ \/ state = "acquiring"
                 \/ state = "ready" /\ ev.batch.end_of_acquisition
              /\ Len(ev.fed) <= 1
              /\ ev.fed = <<>> => (ascii_buf = <<>> /\ bin_buf = <<>>)
              /\ (ev.fed # <<>> /\ ev.fed[1].fmt = "ascii_dec") =>
                    /\ ascii_buf = AsciiParser_feed(<<>>, DecodeAscii(ev.fed[1].raw)).buf
                    /\ bin_buf = <<>>
              /\ (ev.fed # <<>> /\ ev.fed[1].fmt # "ascii_dec") =>
                    /\ bin_buf = BinaryParser_feed(<<>>, ev.fed[1].raw).buf
                    /\ ascii_buf = <<>>
        /\ ~AckedStart =>
              /\ state = ev.pre.state
              /\ CountSig(<<"acq_changed", TRUE>>) = 0
              /\ ascii_buf = ev.pre.ascii_buf /\ bin_buf = ev.pre.bin_buf
C4_Witness ==
    /\ Handled /\ ev.w_state = "ready" /\ AckedStart
    /\ StartsWith(ev.raw, K_prompt_ack_start)
    /\ ev.pre.ascii_buf # <<>>
    /\ state = "acquiring" /\ ascii_buf = <<>>

\* C5: a decoded batch whose end-of-acquisition flag is set makes the state ready
\* and the response buffer empty, emits the acquisition-ended notification
\* exactly once and leaves the command FIFO as it was, whatever it holds.
C5_EndReturnsToReady ==
    (Handled /\ ev.batch.end_of_acquisition) =>
        /\ state = "ready"
        /\ resp_buf = <<>>
        /\ CountSig(<<"acq_changed", FALSE>>) = 1
        /\ cmd_queue = ev.pre.cmd_queue
C5_Witness ==
    /\ Handled /\ ev.w_state = "acquiring" /\ ev.batch.end_of_acquisition
    /\ ev.pre.state = "acquiring" /\ state = "ready"
    /\ cmd_queue # <<>>

\* C6: a read error ends the loop: the next thing run() does is the cleanup, which
\* leaves the state idle and the handle field empty; the handle taken there is
\* closed when run() returns, the disconnected notification is emitted once per
\* run of the loop, and no step of the worker thread opens a transport or puts a
\* handle back.
C6_ReadErrorDisconnects ==
    /\ [](/\ ev.op = "run_read_fails" => pc = "cleanup"
          /\ ev.op = "run_cleanup" => (state = "idle" /\ serial = 0)
          /\ ev.op = "run_close" =>
                /\ w_ser \notin port_open /\ ~running /\ run_disc = 1
                /\ CountSig(<<"conn_changed", FALSE, "Disconnected">>) = 1
          /\ run_disc <= 1
          /\ running => run_disc = 0)
    /\ [][(opened' # opened \/ (serial' # serial /\ serial' # 0) \/ (~running /\ running'))
          => gui \in {"idle", "assign", "start"} /\ gui' # gui]_vars
C6_Witness ==
    /\ ev.op = "run_read_fails" /\ ev.pre.state = "acquiring"
    /\ pc = "cleanup" /\ running

\* C7: a write error while a queued command is sent terminates the loop: run()
\* goes to its cleanup and does not read or send again.
C7_WriteErrorEndsLoop ==
    ev.op = "run_write_fails" => pc = "cleanup"

\* C8: in state acquiring, once 'stop' was sent and its 'ack stop' is received in
\* the stream, the state is ready again, also when no end marker came with it.
C8_AckStopReturnsToReady ==
    ( /\ Handled /\ ev.w_state = "acquiring" /\ ev.pre.state = "acquiring"
      /\ pending_cmd_name = T_stop
      /\ StopAcked(ev.batch) /\ ~ev.batch.end_of_acquisition )
    => state = "ready"

\* C9: in state acquiring, in either format, an 'ack stop' line that arrives in
\* the stream while the decoder holds no carry-over gives exactly one
\* command-result notification for 'stop' and no measurement sample.
C9_EmbeddedAckReported ==
    ( /\ Handled /\ ev.w_state = "acquiring"
      /\ ev.raw = K_ack_stop
      /\ ev.pre.ascii_buf = <<>> /\ ev.pre.bin_buf = <<>> )
    => /\ CountSig(<<"cmd_result", TRUE, T_stop, <<>>>>) = 1
       /\ ev.batch.samples = <<>>

\* The loop is running on an open transport in a state in which it sends.
LoopSending ==
    /\ running /\ pc \notin {"cleanup", "close"} /\ keep_running
    /\ serial # 0 /\ state \in {"ready", "acquiring"}
Written(c) == ev.op = "run_write" /\ pending_cmd_name = c.name
\* What the claim assumes away: a transport error, a disconnect, a new connect,
\* the loop no longer running.
SessionBroken ==
    \/ ev.op \in {"run_write_fails", "run_read_fails"}
    \/ ~keep_running
    \/ gui = "assign"
    \/ ~running

C14_WrittenInFifoOrder ==
    /\ [](owed = (IF w_cmd = NoCmd THEN <<>> ELSE <<w_cmd>>) \o cmd_queue)
    /\ [][ev'.op = "run_write" =>
            /\ pc = "write" /\ owed # <<>> /\ w_cmd = Head(owed)
            /\ pending_cmd_name' = w_cmd.name
            /\ owed' = Tail(owed) /\ w_cmd' = NoCmd /\ pc' = "read"]_vars
    /\ [][(pc' = "write" /\ pc # "write") => (pc = "pop" /\ w_cmd' = Head(cmd_queue))]_vars
    /\ [][(pc' = "pop" /\ pc # "pop") =>
            (pc = "top" /\ keep_running /\ serial # 0 /\ state \in {"ready", "acquiring"})]_vars
C14_Witness ==
    /\ ev.op = "run_write" /\ pending_cmd_name = T_start
    /\ owed = << [bytes |-> T_stop \o <<NL>>, name |-> T_stop] >>
    /\ cmd_queue = owed

\* C15: bytes read while an acquisition is running are fed to the decoder of the
\* format that was selected when that acquisition started, whatever
\* set_data_format was called with since.
C15_FormatFixedDuringAcquisition ==
    ( /\ Handled /\ ev.w_state = "acquiring" /\ ev.pre.state = "acquiring"
      /\ ev.pre.acq_fmt # "none" /\ ev.fed # <<>> )
    => ev.fed[1].fmt = ev.pre.acq_fmt

\* disconnect_device was called while the loop runs in ready or acquiring.
DisconnectRequested ==
    /\ running /\ pc \notin {"cleanup", "close"}
    /\ ~keep_running /\ state \in {"ready", "acquiring"}
\* run() has returned through its cleanup.
LoopClosed ==
    /\ ev.op = "run_close" /\ ~running
    /\ state = "idle" /\ serial = 0 /\ w_ser \notin port_open
    /\ run_disc = 1

\* C16: after disconnect_device is called while the loop runs in ready or
\* acquiring, the loop eventually sees the cleared flag, closes the transport,
\* sets the state to idle and emits the disconnected notification once, unless a
\* connect is issued first.
C16_DisconnectEventuallyCloses ==
    DisconnectRequested ~> (LoopClosed \/ gui = "assign")

\* C17: the shared fields are accessed under the mutex only, so no thread's
\* write can fall between a read of a field and the store made from that read:
\* when the handler stores the response buffer it made from its copy, the field
\* still holds what the handler read.
C17_SharedFieldsUnderLock ==
    pc = "respond" => resp_buf = w_resp

\* C18: wherever response lines are interpreted (ready, and acquiring with the
\* ASCII format), the line 'PowerShield > ack start' arriving on empty buffers
\* gives the command result of 'ack start': one successful result for 'start'.
C18_PromptStrippedEverywhere ==
    ( /\ Handled /\ ev.raw = K_prompt_ack_start
      /\ ev.w_state = "ready" \/ (ev.w_state = "acquiring" /\ ev.w_fmt = "ascii_dec")
      /\ ev.pre.resp_buf = <<>> /\ ev.pre.ascii_buf = <<>> )
    => CountSig(<<"cmd_result", TRUE, T_start, <<>>>>) = 1

\* C19: when connect_device returns after a successful open the state is ready,
\* the command FIFO and the response buffer are empty and one connected
\* notification was emitted; when the open fails it emits one not-connected
\* notification with the error text (and assigns no field).
C19_ConnectPostcondition ==
    /\ ev.op = "connect_start" =>
          /\ state = "ready" /\ cmd_queue = <<>> /\ resp_buf = <<>>
          /\ CountSig(<<"conn_changed", TRUE, "connected">>) = 1
    /\ ev.op = "connect_failed" =>
          /\ CountSig(<<"conn_changed", FALSE, "error">>) = 1
          /\ Len(ev.emitted) = 1

\* ------------------------------------------- sample lines (SpecSample)
DigitOf(c) == c - 48
\* The line DDDDSZZ of the stream, and mantissa and signed exponent as the
\* format defines them.
SampleLine == SubSeq(FirstUnit.b, 1, 7)
Mantissa(l) == 1000 * DigitOf(l[1]) + 100 * DigitOf(l[2]) + 10 * DigitOf(l[3]) + DigitOf(l[4])
SignedExponent(l) == (IF l[5] = 45 THEN 0 - 1 ELSE 1) * (10 * DigitOf(l[6]) + DigitOf(l[7]))

\* C20: a line DDDDSZZ yields exactly one sample, mantissa * 10^(s * exponent)
\* with s = -1 when the character at index 4 is '-' and +1 otherwise: once the
\* line and its terminator are fed, in any split, the samples are that one value
\* and the line is reported once; before the newline is fed there is no sample.
C20_SampleLineValue ==
    /\ AllFed =>
          /\ t_acc.samples = <<[mant |-> Mantissa(SampleLine),
                   exp10 |-> SignedExponent(SampleLine)]>>
          /\ t_acc.raw_lines = <<SampleLine>>
          /\ ascii_buf = <<>>
    /\ ~AllFed => t_acc.samples = <<>>
C20_Witness ==
    /\ AllFed /\ t_calls = 3
    /\ SampleLine = <<57, 53, 48, 57, 45, 48, 53>>
    /\ t_acc.samples = <<[mant |-> 9509, exp10 |-> 0 - 5]>>

\* ------------------------------------------------ byte pairs (SpecPair)
RECURSIVE Pow(_, _)
Pow(b, n) == IF n = 0 THEN 1 ELSE b * Pow(b, n - 1)
NegPow == FirstUnit.b[1] \div 16
Magnitude == ((FirstUnit.b[1] % 16) * 256) + FirstUnit.b[2]

\* The sample m / 2^e, e = smp[2], equals mag / 16^n: m * 2^(4n - e) = mag, the
\* shift being at most the 12 bits of mag.
EqualsScaled(smp, mag, n) ==
    IF mag = 0 THEN smp[1] = 0
    ELSE /\ smp[2] <= 4 * n /\ (4 * n) - smp[2] <= 12
         /\ smp[1] * Pow(2, (4 * n) - smp[2]) = mag

\* C21: a byte pair whose first byte has high nibble negPow in 0..14 yields
\* exactly one sample, equal to magnitude / 16^negPow with magnitude the 12 bits
\* after the nibble;
\* for negPow = 0 it is the magnitude itself; nothing is reported before the
\* second byte is fed and nothing stays in the carry-over after it.
C21_PairValue ==
    /\ ~t_raised
    /\ AllFed =>
          /\ Len(t_acc.samples) = 1
          /\ EqualsScaled(t_acc.samples[1], Magnitude, NegPow)
          /\ NegPow = 0 => t_acc.samples[1] = <<Magnitude, 0>>
          /\ [t_acc EXCEPT !.samples = <<>>] = EmptyParsed
          /\ bin_buf = <<>>
    /\ ~AllFed => t_acc = EmptyParsed
C21_Witness ==
    /\ AllFed /\ t_calls = 2
    /\ FirstUnit.b = <<17, 1>>
    /\ t_acc.samples = << <<257, 4>> >>

\* ------------------------------------------ timestamp frames (SpecStamp)
\* t is the big-endian 32-bit value of bytes b[3..6] with bit 31 cleared.
IsTimeOf(t, b) ==
    /\ 0 <= t /\ t <= 2147483647
    /\ t % 256 = b[6]
    /\ (t \div 256) % 256 = b[5]
    /\ (t \div 65536) % 256 = b[4]
    /\ t \div 16777216 = b[3] % 128

\* C22: a complete frame F0 F3 t0 t1 t2 t3 p FF FF yields exactly one timestamp
\* record (time_ms, p) and no sample nor any other event, time_ms being the
\* big-endian value of t0..t3 with bit 31 cleared, so within 0 .. 2^31 - 1; bytes
\* 00 00 0A BC with p = 50 give (2748, 50) (the F3 unit of SpecBin).
C22_TimestampRecord ==
    AllFed =>
        /\ Len(t_acc.timestamps) = 1
        /\ IsTimeOf(t_acc.timestamps[1][1], FirstUnit.b)
        /\ t_acc.timestamps[1][2] = FirstUnit.b[7]
        /\ [t_acc EXCEPT !.timestamps = <<>>] = EmptyParsed
        /\ bin_buf = <<>>
C22_Witness ==
    /\ AllFed /\ t_calls = 1
    /\ FirstUnit.b = <<240, 243, 255, 0, 10, 188, 255, 255, 255>>
    /\ t_acc.timestamps = << <<2130709180, 255>> >>

\* --------------------------------------- timestamp lines (SpecStampLine)
\* C23: a line holding the word 'timestamp' in any letter case yields exactly
\* one timestamp record: 1000 * seconds token + milliseconds token (a missing
\* token counting 0), and the percent token or 0.
C23_TimestampAnyCase ==
    AllFed =>
        t_acc.timestamps = << <<(1000 * FirstUnit.sec) + FirstUnit.ms, FirstUnit.pct>> >>

\* ---------------------------------------------- command builders (SpecEnc)
Called == enc_out # <<>>
T_acqtime_0 == <<97, 99, 113, 116, 105, 109, 101, 32, 48, 10>>    \* "acqtime 0\n"
\* The argument of the command built: the text between the name and the newline.
Argument(name) == SubSeq(enc_out, Len(name) + 1, Len(enc_out) - 1)
\* The milliseconds nearest to enc_arg ticks (d is within half a millisecond).
NearestMs(d) == 2 * Ticks * d - Ticks <= 2000 * enc_arg /\ 2000 * enc_arg <= 2 * Ticks * d + Ticks

\* C24: acqtime gives the bare '0' (the power-down sentinel) exactly when
\* seconds <= 0; for seconds > 0 it gives the duration rounded to the nearest
\* millisecond with suffix 'm' when that is below 1000, and otherwise the whole
\* number of seconds, at least 1, without suffix.
C24_AcqtimeSentinel ==
    (Called /\ enc_cmd = "acqtime") =>
        /\ SubSeq(enc_out, 1, 8) = T_acqtime_sp /\ enc_out[Len(enc_out)] = NL
        /\ enc_out = T_acqtime_0 <=> enc_arg <= 0
        /\ enc_arg > 0 =>
              LET arg == Argument(T_acqtime_sp)
                  num == IF arg[Len(arg)] = 109 THEN SubSeq(arg, 1, Len(arg) - 1) ELSE arg
              IN  /\ \A k \in 1..Len(num) : num[k] \in Digits
                  /\ IF arg[Len(arg)] = 109
                     THEN DigitsValue(num, 0) < 1000 /\ NearestMs(DigitsValue(num, 0))
                     ELSE /\ DigitsValue(num, 0) >= 1
                          /\ DigitsValue(num, 0) = enc_arg \div Ticks
                          /\ ~(\E d \in 0..999 : NearestMs(d) /\ ~NearestMs(d + 1))

\* C25: freq gives 'freq <hz div 1000>k' for hz >= 1000 and 'freq <hz>' below;
\* for every frequency of FREQ_OPTIONS the number sent times its multiplier (1000
\* for 'k', else 1) is hz; 100000 gives 'freq 100k'.
C25_FreqLossless ==
    (Called /\ enc_cmd = "freq") =>
        LET arg == Argument(T_freq_sp)
            kilo == arg[Len(arg)] = 107
            num == IF kilo THEN SubSeq(arg, 1, Len(arg) - 1) ELSE arg
        IN  /\ SubSeq(enc_out, 1, 5) = T_freq_sp /\ enc_out[Len(enc_out)] = NL
            /\ num # <<>> /\ \A k \in 1..Len(num) : num[k] \in Digits
            /\ Len(num) > 1 => num[1] # 48
            /\ kilo <=> enc_arg >= 1000
            /\ DigitsValue(num, 0) = IF enc_arg >= 1000 THEN enc_arg \div 1000 ELSE enc_arg
            /\ enc_arg \in FREQ_OPTIONS =>
                  DigitsValue(num, 0) * (IF kilo THEN 1000 ELSE 1) = enc_arg
C25_Witness ==
    /\ enc_cmd = "freq" /\ enc_arg = 100000
    /\ enc_out = <<102, 114, 101, 113, 32, 49, 48, 48, 107, 10>>

\* C26: no byte is lost when the state goes from acquiring back to ready: a
\* complete 'ack stop' line that follows the end-of-acquisition marker in the
\* same chunk is interpreted as command-response text and gives exactly one
\* command result for 'stop' (and no sample).
C26_NoByteLostAtEnd ==
    ( /\ Handled /\ ev.w_state = "acquiring" /\ ev.w_fmt = "bin_hexa"
      /\ ev.raw = K_bin_end_ack_stop /\ ev.pre.bin_buf = <<>> )
    => /\ CountSig(<<"cmd_result", TRUE, T_stop, <<>>>>) = 1
       /\ ev.batch.samples = <<>>

\* C27: session isolation.  The state becomes acquiring only by a handled
\* 'ack start'; that step leaves in both decoders what fresh decoders keep of
\* the bytes that followed the 'ack start' line (the leftover fed), so nothing an
\* earlier acquisition left in a carry-over is prepended; every later step of the
\* acquisition feeds one decoder the chunk just read on top of its carry-over and
\* leaves the other alone, and nothing else changes a carry-over.
C27_SessionIsolation ==
    /\ [](( /\ Handled /\ ev.ack_start ) =>
             /\ Len(ev.fed) <= 1
             /\ ascii_buf = IF ev.fed # <<>> /\ ev.fed[1].fmt = "ascii_dec"
                            THEN AsciiParser_feed(<<>>, DecodeAscii(ev.fed[1].raw)).buf
                            ELSE <<>>
             /\ bin_buf = IF ev.fed # <<>> /\ ev.fed[1].fmt # "ascii_dec"
                          THEN BinaryParser_feed(<<>>, ev.fed[1].raw).buf
                          ELSE <<>>)
    /\ [](( /\ Handled /\ ~ev.ack_start /\ ev.fed # <<>> /\ pc # "crashed" ) =>
             /\ ev.fed = <<[fmt |-> ev.w_fmt, raw |-> ev.raw]>>
             /\ IF ev.w_fmt = "ascii_dec"
                THEN /\ ascii_buf = AsciiParser_feed(ev.pre.ascii_buf, DecodeAscii(ev.raw)).buf
                     /\ bin_buf = ev.pre.bin_buf
                ELSE /\ bin_buf = BinaryParser_feed(ev.pre.bin_buf, ev.raw).buf
                     /\ ascii_buf = ev.pre.ascii_buf)
    /\ [][(state' = "acquiring" /\ state # "acquiring") => (ev'.op = "run_handle" /\ ev'.ack_start)]_vars
    /\ [][(ascii_buf' # ascii_buf \/ bin_buf' # bin_buf) => ev'.op = "run_handle"]_vars
C27_Witness ==
    /\ Handled /\ ev.ack_start /\ state = "acquiring"
    /\ ev.pre.bin_buf # <<>> /\ ev.pre.acq_fmt = "none"
    /\ bin_buf = <<>> /\ ascii_buf = <<>>

\* ------------------------------------------------ both decoders (SpecDec)
IsSuffix(x, y) == Len(x) <= Len(y) /\ x = SubSeq(y, Len(y) - Len(x) + 1, Len(y))

\* C28: for both decoders, after every feed call that returns the new
\* carry-over is a suffix of (previous carry-over + new input): the call consumed
\* a prefix and left the rest as it was, in order.
C28_CarryOverIsSuffix ==
    [][(t_calls' = t_calls + 1 /\ ~t_raised') =>
          IF IsBinaryStream
          THEN IsSuffix(bin_buf', bin_buf \o Slice(Stream, t_pos, t_pos')) /\ ascii_buf' = ascii_buf
          ELSE IsSuffix(ascii_buf', ascii_buf \o Slice(Stream, t_pos, t_pos')) /\ bin_buf' = bin_buf]_vars
C28_Witness ==
    /\ IsBinaryStream /\ t_calls = 2 /\ ~t_raised
    /\ t_units = <<[k |-> "sample", b |-> <<26, 240>>], [k |-> "F3", b |-> <<240, 243, 0, 0, 10, 188, 50, 255, 255>>]>>
    /\ t_pos = 7 /\ bin_buf = <<240, 243, 0, 0, 10>>
    /\ Len(t_acc.samples) = 1

C30_UnknownHeaderSkipped ==
    /\ t_pos = 1 => (bin_buf = <<240>> /\ t_acc = EmptyParsed)
    /\ t_pos = 2 => (bin_buf = <<>> /\ t_acc = EmptyParsed /\ ~t_raised)
    /\ AllFed =>
          /\ bin_buf = <<>>
          /\ t_acc = IF Len(t_units) = 2 THEN UnitEvent(t_units[2]) ELSE EmptyParsed
C30_Witness ==
    /\ AllFed /\ t_calls = 1
    /\ t_units = <<[k |-> "unknown", b |-> <<240, 255>>], [k |-> "sample", b |-> <<0, 5>>]>>
    /\ t_acc.samples = << <<5, 0>> >> /\ bin_buf = <<>>

\* ------------------------------------------ digit-leading lines (SpecDigit)
\* The units of the stream that are not the digit-leading line.
OtherUnits_of(us) == SelectSeq(us, LAMBDA u : u.k # "digit")
NoLines(r) == [r EXCEPT !.raw_lines = <<>>]

\* C31: a digit-leading line shorter than 7 characters, or whose mantissa or
\* exponent field is not made of decimal digits, produces no sample, error, ack
\* line, timestamp or flag, and the other line of the stream is classified and
\* reported as if it were alone.
C31_BadSampleDropped ==
    AllFed => NoLines(t_acc) = NoLines(AsciiParser_feed(<<>>, Flatten(OtherUnits_of(t_units))).result)

\* C32: in state acquiring, a decoded batch with the overcurrent flag set and
\* the end-of-acquisition flag clear leaves the state acquiring and the response
\* buffer, the FIFO and the selected format as they were; the step emits the
\* batch and the warning log line and nothing else.
C32_OvercurrentKeepsState ==
    [][( /\ ev'.op = "run_handle" /\ ev'.w_state = "acquiring" /\ state = "acquiring"
         /\ ev'.batch.overcurrent /\ ~ev'.batch.end_of_acquisition )
       => /\ state' = "acquiring"
          /\ resp_buf' = resp_buf /\ cmd_queue' = cmd_queue /\ data_format' = data_format
          /\ ev'.emitted = << <<"data_ready", ev'.batch>>, <<"log", "overcurrent">> >>]_vars
C32_Witness ==
    /\ Handled /\ ev.w_state = "acquiring" /\ ev.pre.state = "acquiring"
    /\ ev.batch.overcurrent /\ ~ev.batch.end_of_acquisition
    /\ state = "acquiring" /\ cmd_queue # <<>>

\* C33: in every reachable state the state is idle, ready or acquiring, and it
\* is idle exactly when the handle field is empty; the state becomes acquiring
\* only from ready.
C33_StateMatchesHandle ==
    /\ [](state \in {"idle", "ready", "acquiring"})
    /\ [](state = "idle" <=> serial = 0)
    /\ [][(state' = "acquiring" /\ state # "acquiring") => state = "ready"]_vars
C33_Witness ==
    /\ ev.op = "run_cleanup" /\ ev.pre.state = "acquiring"
    /\ state = "idle" /\ serial = 0 /\ gui = "start"

\* C34: once connect_device has returned after reporting a connection, a worker
\* loop is running for it: the state is never ready or acquiring with no worker
\* loop left to serve it, also when connect_device was called while the previous
\* loop was still exiting.
C34_LoopServesConnection ==
    (gui = "idle" /\ state \in {"ready", "acquiring"}) => running

\* C35: every transport opened by connect_device is closed by the worker before
\* or when the state next becomes idle, and at most one opened, unclosed
\* transport exists at any time: outside a connect_device call at most one
\* handle is open, and none once the state is idle and run() has returned.
C35_HandlesClosed ==
    gui \in {"idle", "wait"} =>
        /\ Cardinality(port_open) <= 1
        /\ (state = "idle" /\ ~running) => port_open = {}

\* C36: acquisition notifications alternate, started first: as 'started' is
\* emitted whenever the state becomes acquiring, every step that takes the state
\* out of acquiring (end marker, disconnect, transport error, reconnect) emits
\* the acquisition-ended notification.
C36_AcquisitionEndAnnounced ==
    [][(state = "acquiring" /\ state' # "acquiring")
       => \E k \in 1..Len(ev'.emitted) : ev'.emitted[k] = <<"acq_changed", FALSE>>]_vars

\* Signal k of the last step.
IsBatch(k) == ev.emitted[k][1] = "data_ready"
IsEndBatch(k) == IsBatch(k) /\ ev.emitted[k][2].end_of_acquisition
IsStarted(k) == ev.emitted[k] = <<"acq_changed", TRUE>>
IsEnded(k) == ev.emitted[k] = <<"acq_changed", FALSE>>
IsStartResult(k) ==
    /\ ev.emitted[k][1] = "cmd_result" /\ ev.emitted[k][2] = TRUE /\ ev.emitted[k][3] = T_start

\* C37: event ordering.  The command result for 'start' is emitted before the
\* acquisition-started notification; a telemetry batch is delivered only after
\* the acquisition-started notification of its acquisition (earlier in the same
\* step, or the loop had read state acquiring); the batch carrying the
\* end-of-acquisition flag is delivered before the acquisition-ended notification.
C37_EventOrder ==
    \A k \in 1..Len(ev.emitted) :
        /\ IsStarted(k) => \E j \in 1..(k - 1) : IsStartResult(j)
        /\ IsBatch(k) => \/ ev.w_state = "acquiring"
                         \/ \E j \in 1..(k - 1) : IsStarted(j)
        /\ IsEnded(k) => \E j \in 1..(k - 1) : IsEndBatch(j)
C37_Witness ==
    /\ Handled /\ ev.w_state = "ready" /\ ev.ack_start
    /\ \E i, j, k, l \in 1..Len(ev.emitted) :
          /\ i < j /\ j < k /\ k < l
          /\ IsStartResult(i) /\ IsStarted(j) /\ IsEndBatch(k) /\ IsEnded(l)

NewlineCount(t) == Cardinality({k \in 1..Len(t) : t[k] = NL})

\* A call that has returned has made of its buffer what feed makes of it.
LoopAgreesWithFeed ==
    /\ (t_first = "binary" /\ pc # "loop")
           => BinaryParser_feed(<<>>, w_raw)
                  = [raised |-> t_raised, buf |-> bin_buf, result |-> t_acc]
    /\ (t_first = "ascii" /\ pc # "loop")
           => AsciiParser_feed(<<>>, w_raw) = [buf |-> ascii_buf, result |-> t_acc]

\* C39: every decode call terminates.  A pass of the loop of BinaryParser.feed
\* that does not leave the loop moves the cursor forward by at least one byte,
\* and not past the end of the buffer; a pass of the loop of AsciiParser.feed or
\* of the ready-state response handler that does not leave the loop takes exactly
\* one newline out of the buffer; and every call, whatever its buffer, comes to
\* its end (it returns or an exception leaves it).
C39_DecodeLoopsTerminate ==
    /\ [][(pc = "loop" /\ pc' = "loop")
            => /\ t_first = "binary" => (t_pos' >= t_pos + 1 /\ t_pos' <= Len(bin_buf))
               /\ t_first = "ascii" => NewlineCount(ascii_buf') = NewlineCount(ascii_buf) - 1
               /\ t_first = "response" => NewlineCount(resp_buf') = NewlineCount(resp_buf) - 1]_vars
    /\ <>[](pc # "loop")
C39_Witness ==
    /\ t_first = "binary" /\ pc = "returned" /\ t_calls = 2
    /\ w_raw = <<255, 240, 243, 0, 0, 10, 188, 50, 255, 255>>
    /\ t_acc.timestamps = << <<2748, 50>> >> /\ t_pos = 10 /\ bin_buf = <<>>

====
